---------------------------- MODULE Spec2Model ----------------------------
(***************************************************************************)
(* Model of the avatar animation engine of src/components/Avatar.tsx: the  *)
(* per-frame driver (useFrame), the clip controls (play / stop), the bone  *)
(* controls (setRotation), the manual-override flag (isDebuggingBones) and *)
(* the blink state (useState + setBlinkState).                             *)
(*                                                                         *)
(* Numbers.  JavaScript numbers are modelled in fixed point:               *)
(*   - audio levels, morph influences, clip weights: Unit = 1.0            *)
(*   - bone rotations: micro-radians (Unit = 1 rad)                        *)
(*   - the clock (state.clock.elapsedTime * 1000) and the mixer time:      *)
(*     integer milliseconds                                                *)
(*   - angles in degrees: milli-degrees                                    *)
(* Every product is rounded to the nearest fixed-point value, as a float   *)
(* operation rounds to the nearest float.                                  *)
(***************************************************************************)
EXTENDS Integers, Sequences, FiniteSets, TLC

Unit == 1000000

\* ------------------------------------------------------------------ bounds
\* Frames a run of the audio specification may take.
MaxFrames == 26
\* Frames a run of the pose specification may take.
MaxPoseFrames == 6
\* Audio chunks the live voice service may deliver in a run.
MaxChunks == 4
\* Frames a run of the load specification may take.
MaxLoadFrames == 3
\* Frames a run of the lip-sync specification may take.
MaxLipFrames == 3
\* Frames a run of the bone-discovery specification may take.
MaxBoneFrames == 2
\* Frames a run of the idle auto-start specification may take.
MaxIdleFrames == 3
\* Frames a run of the face specification may take.
MaxFaceFrames == 5
\* Frames a run of the reload specification may take.
MaxReloadFrames == 4
\* Audio chunks a run of the playback specification may deliver.
MaxPlays == 2
\* The audio clock up to which a run of the playback specification goes on.
MaxClock == 8
\* Calls of connect() a run of the live-session specification may make.
MaxConnects == 2
\* Messages the live sessions of a run may deliver.
MaxMessages == 2
\* Frames a run of the clip specification may take.
MaxClipFrames == 6
\* Frames a run of the blink specification may take.
MaxBlinkFrames == 10
\* Frames a run of the two-run specification may take.
MaxTwinFrames == 6
\* Times the raw audio level may change during a run.
MaxSwitches == 1
\* Blink-state updates that may wait for a React commit.
MaxPending == 2
\* Control calls (play / stop / slider input / stop debug) per run.
MaxCalls == 2

\* ------------------------------------------------------------------ math
Abs(x) == IF x < 0 THEN -x ELSE x
Min(a, b) == IF a < b THEN a ELSE b
Max(a, b) == IF a > b THEN a ELSE b

\* n / d rounded to the nearest integer (d > 0).
RoundDiv(n, d) == (2 * n + d) \div (2 * d)

\* MathUtils.lerp(x, y, t) = (1 - t) * x + t * y, with t = k / 10.
Lerp(x, y, k) == RoundDiv((10 - k) * x + k * y, 10)

\* MathUtils.degToRad: milli-degrees to micro-radians (pi / 180 = 0.0174533).
DegToRad(md) == (md \div 1000) * 17453 + RoundDiv((md % 1000) * 17453, 1000)

\* Math.sin of an angle given in centi-radians (>= 0), in thousandths:
\* Bhaskara's rational approximation on each half period (error < 0.002).
HalfTurn == 314
Bhaskara(x) == LET p == x * (HalfTurn - x)
               IN  (16000 * p) \div (5 * HalfTurn * HalfTurn - 4 * p)
SinMilli(c) == LET m == c % (2 * HalfTurn)
               IN  IF m <= HalfTurn THEN Bhaskara(m) ELSE -Bhaskara(m - HalfTurn)
CosMilli(c) == SinMilli(c + HalfTurn \div 2)

\* The angle t * f in centi-radians, t in ms and f in thousandths.
Angle(tms, fmilli) == (tms * fmilli) \div 10000


\* String.prototype.toLowerCase and includes, on the characters of the name.
UpperCase == "ABCDEFGHIJKLMNOPQRSTUVWXYZ"
LowerCase == "abcdefghijklmnopqrstuvwxyz"
LowerOf ==
  [c \in {SubSeq(UpperCase, i, i) : i \in 1..Len(UpperCase)} |->
     LET i == CHOOSE i \in 1..Len(UpperCase) : SubSeq(UpperCase, i, i) = c
     IN  SubSeq(LowerCase, i, i)]
LowerChar(c) == IF c \in DOMAIN LowerOf THEN LowerOf[c] ELSE c
RECURSIVE toLowerCase(_)
toLowerCase(s) ==
  IF Len(s) = 0 THEN "" ELSE LowerChar(SubSeq(s, 1, 1)) \o toLowerCase(SubSeq(s, 2, Len(s)))
includes(s, sub) ==
  \E i \in 1..(Len(s) - Len(sub) + 1) : SubSeq(s, i, i + Len(sub) - 1) = sub


\* ------------------------------------------------------------- constants
\* Morph-target names the frame looks up, in the order of the source lists.
mouthTargets == <<"viseme_aa", "jawOpen", "mouthOpen", "mouth_open">>
smileTargets == <<"mouthSmile", "mouthSmileLeft", "mouthSmileRight", "smile">>
blinkTargets == <<"eyeBlinkLeft", "eyeBlinkRight", "eyesClosed", "blink">>
\* expressionTargets: name and the frequency (thousandths) of its sine.
expressionTargets == <<[name |-> "browInnerUp", freq |-> 1500],
                       [name |-> "cheekSquintLeft", freq |-> 2100],
                       [name |-> "cheekSquintRight", freq |-> 2300]>>

Range(seq) == {seq[i] : i \in 1..Len(seq)}
MorphNames == Range(mouthTargets) \cup Range(smileTargets) \cup Range(blinkTargets)
                \cup {expressionTargets[i].name : i \in 1..Len(expressionTargets)}

\* The keys of the bones record, and the ones offered as bone controls.
BoneKeys == {"neck", "head", "spine", "hips",
             "leftArm", "leftForeArm", "leftHand", "leftShoulder",
             "rightArm", "rightForeArm", "rightHand", "rightShoulder"}
relevantBones == {"leftArm", "leftForeArm", "rightArm", "rightForeArm", "spine", "head"}
Axes == {"x", "y", "z"}

blinkDuration == 150
\* The crossfade of fadeIn(0.5) / fadeOut(0.5), in ms.
FadeMs == 500
\* isTalking = intensity > 0.05
TalkThreshold == 50000
\* getEffectiveWeight() > 0.1
WeightThreshold == 100000
\* Lip-sync scale: intensity * 1.2 (in tenths).
LipScale == 12
\* Lerp rates in tenths: smoothing 0.2, lip sync 0.4, smile / flutter 0.1, bones 0.1.
AudioRate == 2
LipRate == 4
MorphRate == 1
LERP_SPEED == 1
\* The smile target 0.4.
SmileTarget == 400000
\* useState({ isBlinking: false, nextBlink: 2000 })
InitialNextBlink == 2000
\* nextBlink: t * 1000 + 2000 + Math.random() * 4000
BlinkGapMs == 2000
BlinkJitterMs == 4000

\* ----------------------------------------------------------------- state
VARIABLES
  t,                \* state.clock.elapsedTime, in ms
  mixerTime,        \* the AnimationMixer's time, in ms
  smoothAudio,      \* smoothAudio.current
  infl,             \* headMesh.morphTargetInfluences, by morph name
  blinkState,       \* the blinkState the frame callback reads (last commit)
  pendingBlink,     \* setBlinkState updates not yet committed by React
  rot,              \* bone key -> [x, y, z] rotation of the bone found
  isDebuggingBones, \* the manual-override prop
  actions,          \* clip name -> AnimationAction state
  headMesh,         \* TRUE iff a mesh with a morph dictionary was selected
  bones,            \* the bone keys for which a bone was found
  names,            \* the clip names, in order
  frameMs,          \* the frame period of this run (environment)
  twin,             \* a second engine run on the same inputs, with a flag of its own
  host,             \* the React host around the avatar: scene, ready events, audio prop
  hist              \* history of the run, read by the properties only

vars == <<t, mixerTime, smoothAudio, infl, blinkState, pendingBlink, rot,
          isDebuggingBones, actions, headMesh, bones, names, frameMs, twin, host,
          hist>>

\* ----------------------------------------------------- animation actions
\* A fresh AnimationAction: enabled, weight 1, _effectiveWeight 1, no fade,
\* not yet activated in the mixer.
NewAction == [active |-> FALSE, enabled |-> TRUE, fading |-> FALSE,
              fadeAt |-> 0, fadeTo |-> 0, effW |-> Unit, time |-> 0]

\* action.fadeOut(0.5) / fadeIn(0.5): _scheduleFading(0.5, 1, 0) / (0.5, 0, 1).
fadeOut(a, now) == [a EXCEPT !.fading = TRUE, !.fadeAt = now, !.fadeTo = 0]
fadeIn(a, now) == [a EXCEPT !.fading = TRUE, !.fadeAt = now, !.fadeTo = Unit]
\* action.reset(): enabled, time 0, stopFading().
reset(a) == [a EXCEPT !.enabled = TRUE, !.time = 0, !.fading = FALSE]
\* action.play(): activated in the mixer.
playAction(a) == [a EXCEPT !.active = TRUE]

\* The weight interpolant at mixer time now: linear from 1 - fadeTo to fadeTo
\* over [fadeAt, fadeAt + FadeMs], the end value afterwards.
FadeValue(a, now) ==
  IF now >= a.fadeAt + FadeMs THEN a.fadeTo
  ELSE IF a.fadeTo = 0 THEN Unit - RoundDiv((now - a.fadeAt) * Unit, FadeMs)
       ELSE RoundDiv((now - a.fadeAt) * Unit, FadeMs)

\* AnimationAction._update for one active action at mixer time now.
UpdateAction(a, now, dt) ==
  IF ~a.active THEN a
  ELSE IF ~a.enabled THEN [a EXCEPT !.effW = 0]
  ELSE IF ~a.fading THEN [a EXCEPT !.effW = Unit, !.time = @ + dt]
  ELSE LET v == FadeValue(a, now)
           over == now > a.fadeAt + FadeMs
       IN  [a EXCEPT !.effW = v, !.time = @ + dt,
                     !.fading = ~over,
                     !.enabled = ~(over /\ v = 0)]

\* mixer.update(delta), run by useAnimations before the avatar's frame.
MixerUpdate(acts, now, dt) == [n \in DOMAIN acts |-> UpdateAction(acts[n], now, dt)]

isRunning(a) == a.enabled /\ a.active
\* Mutant: any running clip counts, whatever its weight.
isAnyAnimPlaying_AnyRunning(acts) == \E n \in DOMAIN acts : isRunning(acts[n])
\* names.some(n => actions[n]?.isRunning() && getEffectiveWeight() > 0.1)
isAnyAnimPlaying(acts) ==
  \E n \in DOMAIN acts : isRunning(acts[n]) /\ acts[n].effW > WeightThreshold

\* Mutant: play() fades the named clip in and leaves the other clips alone.
PlayClip_OthersKept(acts, name, now) ==
  IF name \in DOMAIN acts
  THEN [acts EXCEPT ![name] = playAction(fadeIn(reset(@), now))]
  ELSE acts

\* Mutant: play() on a clip that is already active fades it out instead.
PlayClip_Toggle(acts, name, now) ==
  LET faded == [n \in DOMAIN acts |-> fadeOut(acts[n], now)]
  IN  IF name \in DOMAIN acts /\ ~acts[name].active
      THEN [faded EXCEPT ![name] = playAction(fadeIn(reset(@), now))]
      ELSE faded

\* animControls[name].play()
PlayClip(acts, name, now) ==
  LET faded == [n \in DOMAIN acts |-> fadeOut(acts[n], now)]
  IN  IF name \in DOMAIN acts
      THEN [faded EXCEPT ![name] = playAction(fadeIn(reset(@), now))]
      ELSE faded
\* Mutant: stop() fades every clip out.
StopClip_All(acts, name, now) == [n \in DOMAIN acts |-> fadeOut(acts[n], now)]

\* animControls[name].stop()
StopClip(acts, name, now) ==
  IF name \in DOMAIN acts THEN [acts EXCEPT ![name] = fadeOut(@, now)] ELSE acts

\* ------------------------------------------------------- the frame: morphs
\* The first name of seq that the dictionary d holds, or "" when none does:
\* mouthTargets.map(name => dict[name]).find(i => i !== undefined).
FirstIn(seq, d) ==
  IF \E i \in 1..Len(seq) : seq[i] \in d
  THEN seq[CHOOSE i \in 1..Len(seq) :
             seq[i] \in d /\ \A j \in 1..(i - 1) : seq[j] \notin d]
  ELSE ""

\* smoothAudio.current = lerp(smoothAudio.current, audioLevel, 0.2)
SmoothStep_Slow(s, raw) == Lerp(s, raw, 1)
SmoothStep_Overshoot(s, raw) == Lerp(s, raw, 12)
SmoothStep(s, raw) == Lerp(s, raw, AudioRate)
isTalking(intensity) == intensity > TalkThreshold

\* Lip sync: the first mouth target gets lerp(current, intensity * 1.2, 0.4).
LipSync(m, intensity) ==
  LET name == FirstIn(mouthTargets, DOMAIN m)
  IN  IF name = "" THEN m
      ELSE [m EXCEPT ![name] = Lerp(@, RoundDiv(intensity * LipScale, 10), LipRate)]

\* Mutant: the smile is driven past its target.
Smile_Overshoot(m) ==
  [n \in DOMAIN m |-> IF n \in Range(smileTargets)
                      THEN Lerp(m[n], SmileTarget, 12) ELSE m[n]]

\* Default smile: every smile target present gets lerp(current, 0.4, 0.1).
Smile(m) ==
  [n \in DOMAIN m |-> IF n \in Range(smileTargets)
                      THEN Lerp(m[n], SmileTarget, MorphRate) ELSE m[n]]

\* The eyelid value of a blinking frame at clock now (ms):
\* progress = (now - nextBlink) / 150;
\* value = progress < 0.5 ? progress * 2 : (progress < 1.0 ? 2 - progress * 2 : 0)
BlinkValue(now, nextBlink) ==
  LET el == now - nextBlink
      twice == RoundDiv(el * ((2 * Unit) \div 50), blinkDuration \div 50)
  IN  IF 2 * el < blinkDuration THEN twice
      ELSE IF el < blinkDuration THEN 2 * Unit - twice
      ELSE 0

\* Mutant: the next blink is scheduled without the 2000 ms gap.
BlinkUpdates_NoGap(bs, now, rnd) ==
  IF ~bs.isBlinking
  THEN IF now > bs.nextBlink THEN <<[kind |-> "start", nextBlink |-> 0]>> ELSE <<>>
  ELSE IF now - bs.nextBlink >= blinkDuration
       THEN <<[kind |-> "set", nextBlink |-> now + rnd]>>
       ELSE <<>>

\* Mutant: a blink is requested 100 ms before the clock reaches nextBlink.
BlinkUpdates_Early(bs, now, rnd) ==
  IF ~bs.isBlinking
  THEN IF now + 100 > bs.nextBlink THEN <<[kind |-> "start", nextBlink |-> 0]>> ELSE <<>>
  ELSE IF now - bs.nextBlink >= blinkDuration
       THEN <<[kind |-> "set", nextBlink |-> now + BlinkGapMs + rnd]>>
       ELSE <<>>

\* The setBlinkState calls of one frame, appended to the pending updates.
BlinkUpdates(bs, now, rnd) ==
  IF ~bs.isBlinking
  THEN IF now > bs.nextBlink THEN <<[kind |-> "start", nextBlink |-> 0]>> ELSE <<>>
  ELSE IF now - bs.nextBlink >= blinkDuration
       THEN <<[kind |-> "set", nextBlink |-> now + BlinkGapMs + rnd]>>
       ELSE <<>>

\* The eyelid morph writes of one frame: only while blinkState.isBlinking.
BlinkWrite(m, bs, now) ==
  IF ~bs.isBlinking THEN m
  ELSE [n \in DOMAIN m |-> IF n \in Range(blinkTargets)
                           THEN BlinkValue(now, bs.nextBlink) ELSE m[n]]

\* Math.sin(t * f) * 0.1 + 0.1
FlutterTarget(now, freq) == SinMilli(Angle(now, freq)) * (Unit \div 10000) + (Unit \div 10)
ExpressionFreq(n) ==
  LET i == CHOOSE k \in 1..Len(expressionTargets) : expressionTargets[k].name = n
  IN  expressionTargets[i].freq
\* Mutant: the flutter follows its oscillating target whether talking or not.
Flutter_Always(m, now, talking) ==
  [n \in DOMAIN m |->
     IF \E k \in 1..Len(expressionTargets) : expressionTargets[k].name = n
     THEN Lerp(m[n], FlutterTarget(now, ExpressionFreq(n)), MorphRate)
     ELSE m[n]]

\* Brow / cheek flutter: lerp(current, isTalking ? target : 0, 0.1).
Flutter(m, now, talking) ==
  [n \in DOMAIN m |->
     IF \E k \in 1..Len(expressionTargets) : expressionTargets[k].name = n
     THEN Lerp(m[n], IF talking THEN FlutterTarget(now, ExpressionFreq(n)) ELSE 0, MorphRate)
     ELSE m[n]]

\* All morph writes of one frame, in the order of the source.
MorphStep(m, bs, now, intensity) ==
  Flutter(BlinkWrite(Smile(LipSync(m, intensity)), bs, now), now, isTalking(intensity))

\* ------------------------------------------------------- the frame: bones
\* Idle pose in milli-degrees (also the relaxed pose set at load).
IdleArm(key) ==
  CASE key = "leftArm"      -> [x |-> 61000, y |-> -20000, z |-> -8000]
    [] key = "rightArm"     -> [x |-> 61000, y |-> 20000, z |-> 14000]
    [] key = "leftForeArm"  -> [z |-> 15000]
    [] key = "rightForeArm" -> [z |-> -15000]

\* Talking gesture in milli-degrees at clock now; gestureTime = t * 1.2.
TalkArm(key, now) ==
  CASE key = "rightArm" ->
         [x |-> 40000 + SinMilli(Angle(now, 1200)) * 10,
          y |-> 25000 + CosMilli(Angle(now, 960)) * 5,
          z |-> -10000 + SinMilli(Angle(now, 1200)) * 15]
    [] key = "rightForeArm" -> [z |-> -40000 + CosMilli(Angle(now, 1440)) * 20]
    [] key = "leftArm" ->
         [x |-> 50000 + SinMilli(Angle(now, 840)) * 5,
          y |-> -20000,
          z |-> -5000 + CosMilli(Angle(now, 1080)) * 5]
    [] key = "leftForeArm" -> [z |-> 20000]

\* breath = Math.sin(t * 1.5) * 0.01, in micro-radians.
Breath(now) == SinMilli(Angle(now, 1500)) * 10

\* The target (micro-radians) of every axis the pose controller writes for a
\* bone key: a record over the axes written.  Other keys: no axis.
PoseTarget(key, now, talking) ==
  CASE key = "spine" -> [x |-> Breath(now)]
    [] key = "head"  -> [x |-> Breath(now) * 2, y |-> SinMilli(Angle(now, 500)) * 50]
    [] key \in {"leftArm", "rightArm", "leftForeArm", "rightForeArm"} ->
         LET deg == IF talking THEN TalkArm(key, now) ELSE IdleArm(key)
         IN  [a \in DOMAIN deg |-> DegToRad(deg[a])]
    [] OTHER -> [a \in {} |-> 0]

\* Mutant: the pose controller gives up when the spine is missing.
PoseStep_NeedsSpine(r, now, talking) ==
  IF "spine" \notin DOMAIN r THEN r
  ELSE [k \in DOMAIN r |->
          LET tgt == PoseTarget(k, now, talking)
          IN  [a \in Axes |-> IF a \in DOMAIN tgt
                              THEN Lerp(r[k][a], tgt[a], LERP_SPEED) ELSE r[k][a]]]

\* The pose controller's writes: each written axis of each bone present gets
\* lerp(current, target, LERP_SPEED).
PoseStep(r, now, talking) ==
  [k \in DOMAIN r |->
     LET tgt == PoseTarget(k, now, talking)
     IN  [a \in Axes |-> IF a \in DOMAIN tgt
                         THEN Lerp(r[k][a], tgt[a], LERP_SPEED) ELSE r[k][a]]]

\* Mutants of the guard: one forgets the clips, one forgets the override flag.
PoseGuard_NoClips(acts, debugging) == ~debugging
PoseGuard_NoOverride(acts, debugging) == ~isAnyAnimPlaying(acts)

\* The guard of the pose controller.
PoseGuard(acts, debugging) == ~isAnyAnimPlaying(acts) /\ ~debugging

\* --------------------------------------------------- the frame, as a whole
\* Mutant: the override flag also freezes the morph writes.
FrameStep_MorphsGated(e, mesh, now, raw, rnd, acts, debugging) ==
  LET intensity == SmoothStep(e.smoothAudio, raw)
  IN  [smoothAudio |-> intensity,
       infl |-> IF mesh /\ ~debugging
                THEN MorphStep(e.infl, e.blinkState, now, intensity) ELSE e.infl,
       blinkState |-> e.blinkState,
       pendingBlink |-> IF mesh THEN e.pendingBlink \o BlinkUpdates(e.blinkState, now, rnd)
                        ELSE e.pendingBlink,
       rot |-> IF PoseGuard(acts, debugging)
               THEN PoseStep(e.rot, now, isTalking(intensity)) ELSE e.rot]

\* One run of the useFrame callback on the engine state e at clock now, with
\* audio level raw, Math.random() * 4000 = rnd, the mixer's actions acts
\* (already updated for this frame) and the override flag.
FrameStep(e, mesh, now, raw, rnd, acts, debugging) ==
  LET intensity == SmoothStep(e.smoothAudio, raw)
  IN  [smoothAudio |-> intensity,
       infl |-> IF mesh THEN MorphStep(e.infl, e.blinkState, now, intensity) ELSE e.infl,
       blinkState |-> e.blinkState,
       pendingBlink |-> IF mesh THEN e.pendingBlink \o BlinkUpdates(e.blinkState, now, rnd)
                        ELSE e.pendingBlink,
       rot |-> IF PoseGuard(acts, debugging)
               THEN PoseStep(e.rot, now, isTalking(intensity)) ELSE e.rot]

\* React commits the pending setBlinkState updates, in order.
RECURSIVE ApplyBlink(_, _)
ApplyBlink(bs, q) ==
  IF q = <<>> THEN bs
  ELSE ApplyBlink(IF Head(q).kind = "start" THEN [bs EXCEPT !.isBlinking = TRUE]
                  ELSE [isBlinking |-> FALSE, nextBlink |-> Head(q).nextBlink],
                  Tail(q))

\* ------------------------------------------------------------------ load
\* /idle|stand|wait/i.test(n): one of the words occurs in the name, in any case.
IdleTest(n) ==
  LET name == toLowerCase(n)
  IN  includes(name, "idle") \/ includes(name, "stand") \/ includes(name, "wait")

\* Mutant (the fallback of an earlier revision): with no matching name the
\* first clip is taken.
idleAnim_FirstClip(clipNames) ==
  IF \E i \in 1..Len(clipNames) : IdleTest(clipNames[i])
  THEN clipNames[CHOOSE i \in 1..Len(clipNames) :
         IdleTest(clipNames[i]) /\ \A j \in 1..(i - 1) : ~IdleTest(clipNames[j])]
  ELSE IF clipNames # <<>> THEN clipNames[1] ELSE ""

\* names.find(n => /idle|stand|wait/i.test(n)), or "" when none matches.
idleAnim(clipNames) ==
  IF \E i \in 1..Len(clipNames) : IdleTest(clipNames[i])
  THEN clipNames[CHOOSE i \in 1..Len(clipNames) :
         IdleTest(clipNames[i]) /\ \A j \in 1..(i - 1) : ~IdleTest(clipNames[j])]
  ELSE ""

\* The bind pose of the model (zero), overwritten by the relaxed pose that
\* the mount effect gives the arms and forearms found.
InitialPose(key) ==
  LET zero == [a \in Axes |-> 0]
  IN  IF key \in {"leftArm", "rightArm", "leftForeArm", "rightForeArm"}
      THEN [a \in Axes |-> IF a \in DOMAIN IdleArm(key)
                           THEN DegToRad(IdleArm(key)[a]) ELSE 0]
      ELSE zero

\* The actions after the mount effect: the idle clip, if any, is started.
InitialActions(clipNames) ==
  [n \in Range(clipNames) |->
     IF n = idleAnim(clipNames) THEN playAction(fadeIn(reset(NewAction), 0))
     ELSE NewAction]

\* The engine state a frame works on.
Eng == [smoothAudio |-> smoothAudio, infl |-> infl, blinkState |-> blinkState,
        pendingBlink |-> pendingBlink, rot |-> rot]

InitialHist(raw) ==
  [last |-> "load", frames |-> 0, calls |-> 0, since |-> 0, switches |-> 0, lastRaw |-> raw,
   zeroRun |-> 0, zeroMs |-> 0, zeroFrom |-> 0, rawLo |-> 0, rawHi |-> 0,
   manual |-> {}, released |-> {}, play |-> "", playAt |-> 0, prevPlay |-> "",
   stop |-> "", stopAt |-> 0,
   poseOpen |-> FALSE, blinks |-> 0, loads |-> 1, chunks |-> <<>>,
   quick |-> FALSE, requested |-> <<>>, steps |-> <<>>, loadAt |-> 0, peak |-> 0, quiet |-> FALSE,
   connects |-> 0]

\* The AudioService of the host before its first playAudio: no audio context,
\* nextStartTime 0, no call under way and no buffer source started.  Times
\* are in sample frames of the 24 kHz context.
NewService ==
  [context |-> "none", currentTime |-> 0, nextStartTime |-> 0, calls |-> <<>>,
   sources |-> <<>>]

\* The GeminiService of the host and the connection state it has reported to
\* it: no input audio context, no microphone stream, no live session, no call
\* of connect() or disconnect() under way; the host starts DISCONNECTED.
NewGemini ==
  [state |-> "DISCONNECTED", inputAudioContext |-> "none", audioStream |-> "none",
   capturing |-> FALSE, sessions |-> <<>>, connecting |-> 0, closing |-> 0]

\* A scene is a sequence of mesh nodes in traversal order; a node records
\* whether it is a skinned mesh, whether its name includes 'Wolf3D_Head' or
\* 'Wolf3D_Avatar', and its morph names (dict: it has a morphTargetDictionary).
MeshNode(skinned, marker, dict, morphs) ==
  [skinned |-> skinned, marker |-> marker, dict |-> dict, morphs |-> morphs]

\* headMesh: the last skinned mesh with the marker in its name; if there is
\* none, the first skinned mesh with a morph dictionary; 0 for null.
SelectMesh(meshes) ==
  LET marked == {i \in 1..Len(meshes) : meshes[i].skinned /\ meshes[i].marker}
      withDict == {i \in 1..Len(meshes) : meshes[i].skinned /\ meshes[i].dict}
  IN  IF marked # {} THEN CHOOSE i \in marked : \A j \in marked : j <= i
      ELSE IF withDict # {} THEN CHOOSE i \in withDict : \A j \in withDict : i <= j
      ELSE 0

\* headMesh?.morphTargetDictionary && headMesh.morphTargetInfluences
Expressive(meshes) == SelectMesh(meshes) # 0 /\ meshes[SelectMesh(meshes)].dict
MorphsOf(meshes) == IF Expressive(meshes) THEN meshes[SelectMesh(meshes)].morphs ELSE {}

\* The arguments of onControlsReady: the clip names, the morph names of the
\* selected mesh and the names of the bone controls.
ReadyEvent(meshes, found, clipNames) ==
  [anims |-> clipNames, morphs |-> MorphsOf(meshes), bones |-> found \cap relevantBones]

\* The state of a freshly mounted avatar at clock start, after its mount
\* effect, for a scene with these meshes, bone keys found and clips.
LoadState(meshes, found, clipNames, start, period, raw) ==
  LET e == [smoothAudio |-> 0,
            infl |-> [n \in MorphsOf(meshes) |-> 0],
            blinkState |-> [isBlinking |-> FALSE, nextBlink |-> InitialNextBlink],
            pendingBlink |-> <<>>,
            rot |-> [k \in found |-> InitialPose(k)]]
  IN  [t |-> start, mixerTime |-> 0, e |-> e, isDebuggingBones |-> FALSE,
       actions |-> InitialActions(clipNames), headMesh |-> Expressive(meshes),
       bones |-> found, names |-> clipNames, frameMs |-> period,
       twin |-> [e |-> e, debugging |-> FALSE],
       host |-> [mounted |-> TRUE, scene |-> meshes, selected |-> SelectMesh(meshes),
                 onReady |-> 0, ready |-> <<ReadyEvent(meshes, found, clipNames)>>,
                 audioToPlay |-> "", pendingAudio |-> <<>>, played |-> <<>>,
                 service |-> NewService, gemini |-> NewGemini],
       hist |-> [InitialHist(raw) EXCEPT !.loadAt = start]]

\* The variables hold the state s.
Holds(s) ==
  /\ t = s.t
  /\ mixerTime = s.mixerTime
  /\ smoothAudio = s.e.smoothAudio
  /\ infl = s.e.infl
  /\ blinkState = s.e.blinkState
  /\ pendingBlink = s.e.pendingBlink
  /\ rot = s.e.rot
  /\ isDebuggingBones = s.isDebuggingBones
  /\ actions = s.actions
  /\ headMesh = s.headMesh
  /\ bones = s.bones
  /\ names = s.names
  /\ frameMs = s.frameMs
  /\ twin = s.twin
  /\ host = s.host
  /\ hist = s.hist

\* The state after the component mounted at clock start, for a model with the
\* morph names morphs (if it has a mesh), the bone keys found and the clips.
Load(mesh, morphs, found, clipNames, start, period, raw) ==
  Holds(LoadState(IF mesh THEN <<MeshNode(TRUE, FALSE, TRUE, morphs)>> ELSE <<>>,
                  found, clipNames, start, period, raw))

\* The morph steps of the frame callback, in the order of its statements.
StepOrder_BlinkFirst == <<"blink", "lipSync", "smile", "flutter">>
StepOrder == <<"lipSync", "smile", "blink", "flutter">>

\* The steps a frame executes, in order: the smoothing, the morph steps if an
\* expressive mesh is selected, the pose controller if its guard is open.
FrameSteps(mesh, open) ==
  <<"audio">> \o (IF mesh THEN StepOrder ELSE <<>>) \o (IF open THEN <<"pose">> ELSE <<>>)

\* The eyelid morphs among the influences m.
EyelidsOf(m) == Range(blinkTargets) \cap DOMAIN m

\* --------------------------------------------------------------- actions
\* History of a frame with audio level raw.
FrameHist(dt, raw, acts) ==
  [hist EXCEPT !.last = "frame",
               !.frames = @ + 1,
               !.since = @ + 1,
               !.switches = IF raw = hist.lastRaw THEN @ ELSE @ + 1,
               !.lastRaw = raw,
               !.zeroRun = IF raw = 0 THEN @ + 1 ELSE 0,
               !.zeroMs = IF raw = 0 /\ hist.zeroRun > 0 THEN @ + dt ELSE 0,
               !.zeroFrom = IF raw = 0 /\ hist.zeroRun = 0 THEN smoothAudio ELSE @,
               !.rawLo = Min(@, raw),
               !.rawHi = Max(@, raw),
               !.poseOpen = PoseGuard(acts, isDebuggingBones),
               !.steps = FrameSteps(headMesh, PoseGuard(acts, isDebuggingBones)),
               !.peak = IF headMesh /\ blinkState.isBlinking /\ EyelidsOf(infl) # {}
                        THEN Max(@, BlinkValue(t + dt, blinkState.nextBlink)) ELSE @]

\* One rendered frame, dt ms after the last: mixer.update(delta) (the
\* useFrame of useAnimations), then the avatar's useFrame callback.
Frame(dt, raw, rnd) ==
  LET acts == MixerUpdate(actions, mixerTime + dt, dt)
      e == FrameStep(Eng, headMesh, t + dt, raw, rnd, acts, isDebuggingBones)
  IN  /\ t' = t + dt
      /\ mixerTime' = mixerTime + dt
      /\ actions' = acts
      /\ smoothAudio' = e.smoothAudio
      /\ infl' = e.infl
      /\ blinkState' = e.blinkState
      /\ pendingBlink' = e.pendingBlink
      /\ rot' = e.rot
      /\ hist' = FrameHist(dt, raw, acts)
      /\ UNCHANGED <<isDebuggingBones, headMesh, bones, names, frameMs>>

\* React renders the component again: the pending blink updates are applied.
Commit ==
  /\ pendingBlink # <<>>
  /\ blinkState' = ApplyBlink(blinkState, pendingBlink)
  /\ pendingBlink' = <<>>
  /\ hist' = [hist EXCEPT !.last = "commit",
                          !.blinks = IF blinkState.isBlinking
                                        /\ ~ApplyBlink(blinkState, pendingBlink).isBlinking
                                     THEN @ + 1 ELSE @,
                          !.peak = IF ApplyBlink(blinkState, pendingBlink).isBlinking
                                   THEN @ ELSE 0]
  /\ UNCHANGED <<t, mixerTime, smoothAudio, infl, rot, isDebuggingBones, actions,
                 headMesh, bones, names, frameMs>>

\* boneControls[key].setRotation(axis, valueInDegrees)
setRotation(r, key, axis, deg) ==
  IF key \in DOMAIN r THEN [r EXCEPT ![key][axis] = DegToRad(deg * 1000)] ELSE r

\* onStartDebug: setIsDebuggingBones(true); also a host setting the prop.
StartDebug ==
  /\ ~isDebuggingBones
  /\ isDebuggingBones' = TRUE
  /\ hist' = [hist EXCEPT !.last = "startDebug", !.calls = @ + 1, !.since = 0]
  /\ UNCHANGED <<t, mixerTime, smoothAudio, infl, blinkState, pendingBlink, rot,
                 actions, headMesh, bones, names, frameMs>>

\* The bone slider's onInput: onStartDebug(), then bone.setRotation(axis, value).
SliderInput(key, axis, deg) ==
  /\ key \in bones \cap relevantBones
  /\ isDebuggingBones' = TRUE
  /\ rot' = setRotation(rot, key, axis, deg)
  /\ hist' = [hist EXCEPT !.last = "slider", !.calls = @ + 1, !.since = 0,
                          !.manual = {m \in @ : <<m[1], m[2]>> # <<key, axis>>}
                                       \cup {<<key, axis, DegToRad(deg * 1000)>>},
                          !.released = @ \ {<<key, axis>>}]
  /\ UNCHANGED <<t, mixerTime, smoothAudio, infl, blinkState, pendingBlink, actions,
                 headMesh, bones, names, frameMs>>

\* handleStopDebug: onStopDebug() clears the flag (the sliders are reset,
\* the bones are not touched).
StopDebug ==
  /\ isDebuggingBones
  /\ isDebuggingBones' = FALSE
  /\ hist' = [hist EXCEPT !.last = "stopDebug", !.calls = @ + 1, !.since = 0,
                          !.manual = {},
                          !.released = @ \cup {<<m[1], m[2]>> : m \in hist.manual}]
  /\ UNCHANGED <<t, mixerTime, smoothAudio, infl, blinkState, pendingBlink, rot,
                 actions, headMesh, bones, names, frameMs>>

\* animControls[name].play() from the control panel.
Play(name) ==
  /\ actions' = PlayClip(actions, name, mixerTime)
  /\ hist' = [hist EXCEPT !.last = "play", !.calls = @ + 1, !.since = 0,
                          !.prevPlay = IF hist.last = "play" /\ hist.playAt = mixerTime
                                       THEN hist.play ELSE "",
                          !.play = name, !.playAt = mixerTime, !.stop = ""]
  /\ UNCHANGED <<t, mixerTime, smoothAudio, infl, blinkState, pendingBlink, rot,
                 isDebuggingBones, headMesh, bones, names, frameMs>>

\* animControls[name].stop()
Stop(name) ==
  /\ actions' = StopClip(actions, name, mixerTime)
  /\ hist' = [hist EXCEPT !.last = "stop", !.calls = @ + 1, !.since = 0, !.play = "", !.prevPlay = "",
                          !.stop = name, !.stopAt = mixerTime]
  /\ UNCHANGED <<t, mixerTime, smoothAudio, infl, blinkState, pendingBlink, rot,
                 isDebuggingBones, headMesh, bones, names, frameMs>>

\* ------------------------------------------------- specification: pose
\* A model without an expressive mesh, with the controllable bones and two
\* clips; the host drags bone sliders, re-enables the procedural pose and
\* plays or stops clips between frames.
PoseBones == relevantBones \cup {"neck", "hips"}
PoseClips == {<<"Wave", "Dance">>, <<"Idle", "Wave">>}
PoseLevels == {0, Unit}
PosePeriods == {50, 100}
\* The slider inputs tried: <<bone key, axis, degrees>>.
SliderInputs == {<<"spine", "y", 30>>, <<"leftForeArm", "z", -90>>}

PoseInit ==
  \E clipNames \in PoseClips, period \in PosePeriods, raw \in PoseLevels :
    Load(FALSE, {}, PoseBones, clipNames, 0, period, raw)

\* The audio level is held at the level of the run.
PoseFrame ==
  /\ hist.frames < MaxPoseFrames
  /\ Frame(frameMs, hist.lastRaw, 0)
  /\ UNCHANGED <<twin, host>>

PoseSlider ==
  /\ hist.calls < MaxCalls
  /\ \E s \in SliderInputs : SliderInput(s[1], s[2], s[3])
  /\ UNCHANGED <<twin, host>>

PoseStopDebug == hist.calls < MaxCalls /\ StopDebug /\ UNCHANGED <<twin, host>>

\* The host plays the last clip of the model, or stops the first.
PosePlay == hist.calls < MaxCalls /\ Play(names[Len(names)]) /\ UNCHANGED <<twin, host>>

PoseStop == hist.calls < MaxCalls /\ Stop(names[1]) /\ UNCHANGED <<twin, host>>

PoseNext == PoseFrame \/ PoseSlider \/ PoseStopDebug \/ PosePlay \/ PoseStop

SpecPose == PoseInit /\ [][PoseNext]_vars

\* ------------------------------------------------------ claims: the pose
\* The blend weight a clip contributes: its effective weight once it is in
\* the mixer, nothing before.
ClipWeight(a) == IF a.active THEN a.effW ELSE 0
SomeClipAbove(acts) == \E n \in DOMAIN acts : ClipWeight(acts[n]) > WeightThreshold

\* C1: a frame in which some clip's blend weight exceeds 0.1 or the override
\* flag is true leaves every bone rotation as it found it; so a frame writes
\* a bone rotation only if no clip is above 0.1 and the flag is false.
C1_PoseGuarded ==
  [][(hist'.last = "frame" /\ (SomeClipAbove(actions') \/ isDebuggingBones))
       => rot' = rot]_vars

\* A frame ran while a clip was above 0.1 (and the flag false), on bones the
\* pose controller would have moved.
C1_Witness ==
  /\ hist.last = "frame" /\ hist.frames >= 2
  /\ ~isDebuggingBones /\ SomeClipAbove(actions)
  /\ PoseStep(rot, t, isTalking(smoothAudio)) # rot

C3_EveryAxisLerps ==
  [][(hist'.last = "frame" /\ hist'.poseOpen) =>
       \A p \in hist.released :
         LET tgt == PoseTarget(p[1], t', isTalking(smoothAudio'))
         IN  /\ p[2] \in DOMAIN tgt
             /\ rot'[p[1]][p[2]] = Lerp(rot[p[1]][p[2]], tgt[p[2]], LERP_SPEED)]_vars

\* ---------------------------------------------- specification: two runs
\* Two runs of the engine on the same model, clock, audio levels, random
\* numbers and commits; each run has an override flag of its own.
TwinMorphs == {"jawOpen", "smile", "eyeBlinkLeft", "blink", "browInnerUp"}
TwinBones == {"spine", "leftArm"}
TwinLevels == {0, Unit}
TwinPeriods == {50}
TwinStarts == {1900}

TwinInit ==
  \E period \in TwinPeriods, raw \in TwinLevels, start \in TwinStarts :
    Load(TRUE, TwinMorphs, TwinBones, <<"Wave">>, start, period, raw)

TwinFrame ==
  /\ hist.frames < MaxTwinFrames
  /\ Len(pendingBlink) < MaxPending
  /\ Frame(frameMs, hist.lastRaw, 0)
  /\ twin' = [twin EXCEPT !.e = FrameStep(twin.e, headMesh, t + frameMs, hist.lastRaw, 0,
                                          MixerUpdate(actions, mixerTime + frameMs, frameMs),
                                          twin.debugging)]
  /\ UNCHANGED host

TwinCommit ==
  /\ Commit
  /\ twin' = [twin EXCEPT !.e.blinkState = ApplyBlink(twin.e.blinkState, twin.e.pendingBlink),
                          !.e.pendingBlink = <<>>]
  /\ UNCHANGED host

\* The flag of the first run is set or cleared.
TwinStartDebug == hist.calls < MaxCalls /\ StartDebug /\ UNCHANGED <<twin, host>>
TwinStopDebug == hist.calls < MaxCalls /\ StopDebug /\ UNCHANGED <<twin, host>>

\* The flag of the second run is set or cleared.
TwinFlag ==
  /\ hist.calls < MaxCalls
  /\ twin' = [twin EXCEPT !.debugging = ~@]
  /\ UNCHANGED host
  /\ hist' = [hist EXCEPT !.last = "twinFlag", !.calls = @ + 1, !.since = 0]
  /\ UNCHANGED <<t, mixerTime, smoothAudio, infl, blinkState, pendingBlink, rot,
                 isDebuggingBones, actions, headMesh, bones, names, frameMs>>

TwinNext == TwinFrame \/ TwinCommit \/ TwinStartDebug \/ TwinStopDebug \/ TwinFlag

SpecTwin == TwinInit /\ [][TwinNext]_vars

\* C4: two runs on the same clock and audio levels that differ only in their
\* override flags agree, after every step, on the smoothed audio value, the
\* blink state (committed and pending) and every morph influence.
C4_FlagFreeMorphs ==
  /\ twin.e.smoothAudio = smoothAudio
  /\ twin.e.infl = infl
  /\ twin.e.blinkState = blinkState
  /\ twin.e.pendingBlink = pendingBlink

\* The flags differ, the bones of the two runs have diverged, and the morphs
\* (lip sync, smile, blink, flutter) have all been written.
C4_Witness ==
  /\ twin.debugging # isDebuggingBones
  /\ twin.e.rot # rot
  /\ hist.last = "frame"
  /\ infl["jawOpen"] > 0 /\ infl["smile"] > 0 /\ infl["blink"] > 0
  /\ infl["browInnerUp"] > 0

\* ------------------------------------------------ specification: blinking
\* A head mesh with two eyelid morphs and a mouth morph, no bones, no clips;
\* frames of 50 ms or 1000 ms, silent audio, and React commits in between.
BlinkMorphs == {"eyeBlinkLeft", "blink", "jawOpen"}
BlinkDeltas == {50, 1000}
BlinkStarts == {1900}
BlinkRandoms == {0, 1500, 3999}

BlinkInit ==
  \E start \in BlinkStarts : Load(TRUE, BlinkMorphs, {}, <<>>, start, 50, 0)

BlinkFrame ==
  /\ hist.frames < MaxBlinkFrames
  /\ Len(pendingBlink) < MaxPending
  /\ \E dt \in BlinkDeltas, rnd \in BlinkRandoms : Frame(dt, 0, rnd)
  /\ UNCHANGED <<twin, host>>

BlinkCommit == Commit /\ UNCHANGED <<twin, host>>

BlinkNext == BlinkFrame \/ BlinkCommit

SpecBlink == BlinkInit /\ [][BlinkNext]_vars

EyelidMorphs == Range(blinkTargets) \cap DOMAIN infl

\* C5: after every frame all eyelid morphs present hold the same value: 0 when
\* the clock is outside [nextBlink, nextBlink + 150), and inside that window
\* the triangular profile 2p / 2 - 2p of p = (now - nextBlink) / 150.
C5_BlinkProfile ==
  hist.last = "frame" =>
    \A n \in EyelidMorphs :
      infl[n] = IF t >= blinkState.nextBlink /\ t < blinkState.nextBlink + blinkDuration
                THEN BlinkValue(t, blinkState.nextBlink)
                ELSE 0

\* C6: a blink that completes at clock t leaves isBlinking false and nextBlink
\* in [t + 2000, t + 6000), above the previous nextBlink; a blink starts only
\* when the clock has passed nextBlink, and does not move it.
C6_BlinkCycle ==
  [][/\ (blinkState.isBlinking /\ ~blinkState'.isBlinking)
          => /\ blinkState'.nextBlink >= t + BlinkGapMs
             /\ blinkState'.nextBlink < t + BlinkGapMs + BlinkJitterMs
             /\ blinkState'.nextBlink > blinkState.nextBlink
     /\ (~blinkState.isBlinking /\ blinkState'.isBlinking)
          => /\ t > blinkState.nextBlink
             /\ blinkState'.nextBlink = blinkState.nextBlink
     /\ (blinkState'.isBlinking = blinkState.isBlinking)
          => blinkState'.nextBlink = blinkState.nextBlink]_vars

\* A blink has completed and, after the clock passed the new nextBlink, a
\* second blink has started and is moving the eyelids.
C6_Witness ==
  /\ hist.blinks >= 1
  /\ blinkState.isBlinking
  /\ hist.last = "frame"
  /\ \E n \in EyelidMorphs : infl[n] > 0

\* -------------------------------------------------- specification: audio
\* A head mesh with a mouth, a smile, an eyelid and two flutter morphs, two arm
\* bones, no clips; the host feeds a raw audio level to every frame, in or out
\* of the documented range 0..1.
AudioMorphs == {"jawOpen", "smile", "blink", "browInnerUp", "cheekSquintLeft"}
AudioBones == {"leftArm", "rightForeArm"}
AudioLevels == {0 - Unit \div 2, 0, Unit, 3 * (Unit \div 2)}
AudioPeriods == {250}

AudioInit ==
  \E period \in AudioPeriods, raw \in AudioLevels :
    Load(TRUE, AudioMorphs, AudioBones, <<>>, 0, period, raw)

\* Here React renders before the next frame: no update is pending at a frame.
AudioFrame ==
  /\ hist.frames < MaxFrames
  /\ pendingBlink = <<>>
  /\ \E raw \in AudioLevels :
       /\ raw = hist.lastRaw \/ hist.switches < MaxSwitches
       /\ Frame(frameMs, raw, 0)
  /\ UNCHANGED <<twin, host>>

AudioCommit == Commit /\ UNCHANGED <<twin, host>>

AudioNext == AudioFrame \/ AudioCommit

SpecAudio == AudioInit /\ [][AudioNext]_vars

ArmKeys == {"leftArm", "rightArm", "leftForeArm", "rightForeArm"}
FlutterMorphs == {expressionTargets[k].name : k \in 1..Len(expressionTargets)}

\* What a frame of settled silence does: the smoothed level it leaves is below
\* 0.01 and not talking, every arm axis moved toward the idle baseline and
\* every flutter morph toward 0.
SilentFrame ==
  /\ smoothAudio' < Unit \div 100
  /\ ~isTalking(smoothAudio')
  /\ \A k \in bones \cap ArmKeys : \A a \in DOMAIN IdleArm(k) :
       rot'[k][a] = Lerp(rot[k][a], DegToRad(IdleArm(k)[a]), LERP_SPEED)
  /\ \A n \in FlutterMorphs \cap DOMAIN infl : infl'[n] = Lerp(infl[n], 0, MorphRate)

\* C7 as stated: from a smoothed level in [0,1], every frame after the raw
\* level has been 0 on every frame for 2 seconds is a frame of settled silence.
C7_SilentAfterTwoSeconds ==
  [][(hist'.last = "frame" /\ hist'.zeroMs >= 2000 /\ hist'.zeroFrom \in 0..Unit)
       => SilentFrame]_vars

\* C7: from a smoothed level in [0,1], the 21st consecutive frame with raw
\* level 0 and every later one, while the raw level stays 0, leaves the
\* smoothed level below 0.01 and not talking, moves the arms toward the idle
\* baseline and the flutter morphs toward 0.
C7_SilentAfterFrames ==
  [][(hist'.last = "frame" /\ hist'.zeroRun >= 21 /\ hist'.zeroFrom \in 0..Unit)
       => SilentFrame]_vars

\* 21 zero frames have run from a smoothed level above 0.88, and the arm had
\* left the idle baseline while talking.
C7_Witness ==
  /\ hist.last = "frame"
  /\ hist.zeroRun = 21
  /\ hist.zeroFrom > 88 * (Unit \div 100)
  /\ hist.zeroFrom <= Unit
  /\ rot["leftArm"]["x"] # DegToRad(IdleArm("leftArm").x)

\* C8 as stated: whatever the raw levels, the smoothed level stays in [0,1].
C8_SmoothedInUnit == smoothAudio \in 0..Unit

\* C8: whatever the raw levels, the smoothed level stays between the lowest
\* and the highest raw level seen (0 included); in [0,1] if they all were.
C8_SmoothedInHull ==
  /\ smoothAudio >= Min(0, hist.rawLo)
  /\ smoothAudio <= Max(0, hist.rawHi)

\* A raw level above 1 has been fed and the smoothed level has left [0,1].
C8_Witness == hist.last = "frame" /\ hist.rawHi > Unit /\ smoothAudio > Unit

\* C9: with every raw level in [0,1], every morph influence the engine has
\* written stays in [0,1].
C9_InfluenceInUnit ==
  (hist.rawLo >= 0 /\ hist.rawHi <= Unit) => \A n \in DOMAIN infl : infl[n] \in 0..Unit

\* -------------------------------------------------- specification: clips
\* A model with three clips, one of them an idle clip started at mount, no
\* expressive mesh and no bones; the host plays and stops clips between frames.
ClipNames == <<"Idle", "Wave", "Dance">>
ClipPeriods == {100, 250}

ClipInit ==
  \E period \in ClipPeriods : Load(FALSE, {}, {}, ClipNames, 0, period, 0)

ClipFrame ==
  /\ hist.frames < MaxClipFrames
  /\ Frame(frameMs, 0, 0)
  /\ UNCHANGED <<twin, host>>

ClipPlay ==
  /\ hist.calls < MaxCalls
  /\ \E n \in Range(names) : Play(n)
  /\ UNCHANGED <<twin, host>>

ClipStop ==
  /\ hist.calls < MaxCalls
  /\ \E n \in Range(names) : Stop(n)
  /\ UNCHANGED <<twin, host>>

ClipNext == ClipFrame \/ ClipPlay \/ ClipStop

SpecClips == ClipInit /\ [][ClipNext]_vars

\* The linear ramp of a 0.5 s fade, el ms after it was scheduled.
Ramp(el) == IF el >= FadeMs THEN Unit ELSE RoundDiv(el * Unit, FadeMs)

\* C10: after play(name), with no later call, every frame el ms later leaves
\* the named clip running at weight el / 0.5 s (from zero up to 1) and every
\* other clip at weight 0 or 1 - el / 0.5 s; once 0.5 s have elapsed the named
\* clip is at weight 1 and every other clip, one played just before
\* included, at weight 0.
C10_Crossfade ==
  (hist.play # "" /\ mixerTime > hist.playAt) =>
    LET el == mixerTime - hist.playAt
    IN  /\ isRunning(actions[hist.play])
        /\ actions[hist.play].effW = Ramp(el)
        /\ \A n \in DOMAIN actions \ {hist.play} :
             /\ ClipWeight(actions[n]) \in {0, Unit - Ramp(el)}
             /\ isRunning(actions[n]) => ClipWeight(actions[n]) = Unit - Ramp(el)

\* play(A) was followed at once by play(B), 0.5 s or more have elapsed, A is
\* at weight 0 and B at weight 1.
C10_Witness ==
  /\ hist.prevPlay # "" /\ hist.prevPlay # hist.play /\ hist.play # ""
  /\ mixerTime >= hist.playAt + FadeMs
  /\ actions[hist.prevPlay].active /\ actions[hist.prevPlay].effW = 0
  /\ actions[hist.play].effW = Unit

\* C11 as stated: from play(name) on, for as long as the played clip is in
\* its active window (running, no later call), no frame writes a bone.
C11_SuppressedFromPlay ==
  [][(hist'.last = "frame" /\ hist.play # "" /\ isRunning(actions'[hist.play]))
       => rot' = rot]_vars

\* C11: a frame writes the bones exactly when, after the mixer update of that
\* frame, no clip's blend weight exceeds 0.1 (and the override flag is
\* false); a frame within the first 50 ms of a fade-in, the played clip still
\* at 0.1 or below and no other clip above, does perform the pose writes.
C11_WritesFollowWeights ==
  [][hist'.last = "frame" =>
       /\ rot' # rot => ~SomeClipAbove(actions') /\ ~isDebuggingBones
       /\ (~SomeClipAbove(actions') /\ ~isDebuggingBones)
            => rot' = PoseStep(rot, t', isTalking(smoothAudio'))]_vars

\* A frame right after play: the played clip is running at a weight in
\* (0, 0.1], no clip is above 0.1, and the frame has moved the bones.
C11_Witness ==
  /\ hist.last = "frame" /\ hist.since = 1 /\ hist.play # ""
  /\ isRunning(actions[hist.play])
  /\ actions[hist.play].effW > 0
  /\ ~SomeClipAbove(actions)
  /\ hist.poseOpen
  /\ rot # [k \in DOMAIN rot |-> InitialPose(k)]

\* C12: stop(name) schedules a 0.5 s fade to zero on the named clip and leaves
\* every field of every other clip as it was; with no later call, a frame
\* el ms after the call leaves the named clip, if it is running, at weight
\* 1 - el / 0.5 s, and at weight 0 once 0.5 s have elapsed.
C12_StopFadesOne ==
  [][/\ hist'.last = "stop" =>
          /\ \A m \in DOMAIN actions \ {hist'.stop} : actions'[m] = actions[m]
          /\ actions'[hist'.stop].fading /\ actions'[hist'.stop].fadeTo = 0
          /\ actions'[hist'.stop].fadeAt = mixerTime
          /\ actions'[hist'.stop].effW = actions[hist'.stop].effW
     /\ (hist'.last = "frame" /\ hist.stop # "") =>
          LET a == actions'[hist.stop]
              el == mixerTime' - hist.stopAt
          IN  /\ ClipWeight(a) \in {0, Unit - Ramp(el)}
              /\ isRunning(a) => ClipWeight(a) = Unit - Ramp(el)
              /\ el >= FadeMs => ClipWeight(a) = 0]_vars

\* stop(name) was called on a running clip while another clip was fading in;
\* 0.5 s later the stopped clip is at weight 0 and the other one at weight 1.
C12_Witness ==
  /\ hist.stop # "" /\ hist.last = "frame"
  /\ mixerTime >= hist.stopAt + FadeMs
  /\ actions[hist.stop].active /\ actions[hist.stop].effW = 0
  /\ \E m \in DOMAIN actions \ {hist.stop} : isRunning(actions[m]) /\ actions[m].effW = Unit

\* ----------------------------------------------- specification: registry
\* useAnimations types every entry of actions as AnimationAction | null: the
\* model has three clip names, and an action for all of them or for the first
\* two only; the host uses the play and stop controls of all three names.
RegistryTracked == {{"Idle", "Wave"}, {"Idle", "Wave", "Dance"}}

RegistryInit ==
  \E period \in ClipPeriods, tracked \in RegistryTracked :
    LET s == LoadState(<<>>, {}, ClipNames, 0, period, 0)
    IN  Holds([s EXCEPT !.actions = [n \in tracked |-> s.actions[n]]])

SpecRegistry == RegistryInit /\ [][ClipNext]_vars

C14_PlayIdempotent ==
  [][(hist.last = "play" /\ hist'.last = "play" /\ hist'.play = hist.play
        /\ hist.play \in DOMAIN actions)
       => actions' = actions]_vars

\* play(name) has just been invoked twice in a row on a clip that was already
\* playing before (it had run for a frame), while another clip fades out.
C14_Witness ==
  /\ hist.last = "play" /\ hist.prevPlay = hist.play /\ hist.play # ""
  /\ mixerTime > 0
  /\ isRunning(actions[hist.play]) /\ actions[hist.play].time = 0
  /\ actions[hist.play].effW > 0
  /\ \E m \in DOMAIN actions \ {hist.play} : isRunning(actions[m]) /\ actions[m].fadeTo = 0

\* -------------------------------------------------------------- lifecycle
\* The relaxed pose of the mount effect, written over the current rotations
\* of the arms and forearms found.
RelaxPose(r) ==
  [k \in DOMAIN r |->
     IF k \in ArmKeys
     THEN [a \in Axes |-> IF a \in DOMAIN IdleArm(k)
                          THEN DegToRad(IdleArm(k)[a]) ELSE r[k][a]]
     ELSE r[k]]

\* if (idleAnim) actions[idleAnim]?.reset().fadeIn(0.5).play()
StartIdle(acts, clipNames, now) ==
  IF idleAnim(clipNames) \in DOMAIN acts
  THEN [acts EXCEPT ![idleAnim(clipNames)] = playAction(fadeIn(reset(@), now))]
  ELSE acts

\* Mutant: the avatar is not keyed by the model URL and keeps its blink and
\* audio state across a replacement.
Remount_KeepsState(oldHost, oldEng, fresh) ==
  [fresh EXCEPT !.e.blinkState = oldEng.blinkState,
                !.e.smoothAudio = oldEng.smoothAudio,
                !.host.onReady = oldHost.onReady,
                !.host.ready = oldHost.ready \o fresh.host.ready,
                !.host.audioToPlay = oldHost.audioToPlay,
                !.host.pendingAudio = oldHost.pendingAudio,
                !.host.played = oldHost.played,
                !.host.service = oldHost.service,
                !.host.gemini = oldHost.gemini]

\* <Avatar key={modelUrl}>: a new URL unmounts the avatar and mounts a new
\* one in the same host; the host keeps its callback, the ready events it
\* has received and its audio state.
Remount(oldHost, oldEng, fresh) ==
  [fresh EXCEPT !.host.onReady = oldHost.onReady,
                !.host.ready = oldHost.ready \o fresh.host.ready,
                !.host.audioToPlay = oldHost.audioToPlay,
                !.host.pendingAudio = oldHost.pendingAudio,
                !.host.played = oldHost.played,
                !.host.service = oldHost.service,
                !.host.gemini = oldHost.gemini]

\* The model is replaced (or loaded again after an unload) by a scene with
\* these meshes, bone keys and clips; the canvas clock runs on.
Replace(meshes, found, clipNames) ==
  LET s == Remount(host, Eng, LoadState(meshes, found, clipNames, t, frameMs, hist.lastRaw))
  IN  /\ t' = s.t
      /\ mixerTime' = s.mixerTime
      /\ smoothAudio' = s.e.smoothAudio
      /\ infl' = s.e.infl
      /\ blinkState' = s.e.blinkState
      /\ pendingBlink' = s.e.pendingBlink
      /\ rot' = s.e.rot
      /\ isDebuggingBones' = isDebuggingBones
      /\ actions' = s.actions
      /\ headMesh' = s.headMesh
      /\ bones' = s.bones
      /\ names' = s.names
      /\ frameMs' = s.frameMs
      /\ host' = s.host
      /\ hist' = [InitialHist(hist.lastRaw) EXCEPT
                    !.frames = hist.frames, !.calls = hist.calls + 1,
                    !.loads = hist.loads + 1,
                    !.quick = (hist.last \in {"load", "unload"}),
                    !.loadAt = t,
                    !.requested = [meshes |-> meshes, found |-> found, clips |-> clipNames]]

\* modelUrl becomes null: the avatar is unmounted and its frames stop.
Unload ==
  /\ host.mounted
  /\ host' = [host EXCEPT !.mounted = FALSE]
  /\ hist' = [hist EXCEPT !.last = "unload", !.calls = @ + 1, !.since = 0]
  /\ UNCHANGED <<t, mixerTime, smoothAudio, infl, blinkState, pendingBlink, rot,
                 isDebuggingBones, actions, headMesh, bones, names, frameMs>>

\* The host renders and passes the onReady function id: handleAvatarReady is
\* useCallback(..., [onReady]) and is a dependency of the avatar's mount
\* effect, which runs again when the function is a new one.
HostRender(id) ==
  /\ host.mounted
  /\ host' = [host EXCEPT !.onReady = id,
                          !.ready = IF id # host.onReady
                                    THEN Append(@, ReadyEvent(host.scene, bones, names))
                                    ELSE @]
  /\ rot' = IF id # host.onReady THEN RelaxPose(rot) ELSE rot
  /\ actions' = IF id # host.onReady THEN StartIdle(actions, names, mixerTime) ELSE actions
  /\ hist' = [hist EXCEPT !.last = "render", !.calls = @ + 1, !.since = 0]
  /\ UNCHANGED <<t, mixerTime, smoothAudio, infl, blinkState, pendingBlink,
                 isDebuggingBones, headMesh, bones, names, frameMs>>

\* --------------------------------------------------- specification: load
\* Three scenes, with or without a skeleton and clips; the host renders
\* frames, replaces or unloads the model and re-renders with the same or a
\* new onReady function.
LoadRigs == {[found |-> {}, clips |-> <<>>],
             [found |-> {"spine", "leftArm", "hips"}, clips |-> <<"Idle", "Wave">>]}
\* The scenes a replacement loads.
ReplaceScenes ==
  {<<>>,
   <<MeshNode(TRUE, TRUE, TRUE, {"jawOpen", "blink"})>>,
   <<MeshNode(TRUE, FALSE, TRUE, {"mouthOpen"}), MeshNode(TRUE, TRUE, FALSE, {})>>}

LoadInit ==
  \E meshes \in ReplaceScenes, rig \in LoadRigs :
    Holds(LoadState(meshes, rig.found, rig.clips, 1950, 50, Unit))

LoadFrame ==
  /\ host.mounted
  /\ hist.frames < MaxLoadFrames
  /\ Len(pendingBlink) < MaxPending
  /\ Frame(frameMs, hist.lastRaw, 0)
  /\ UNCHANGED <<twin, host>>

LoadCommit == host.mounted /\ Commit /\ UNCHANGED <<twin, host>>

LoadReplace ==
  /\ hist.calls < MaxCalls
  /\ \E meshes \in ReplaceScenes, rig \in LoadRigs : Replace(meshes, rig.found, rig.clips)
  /\ UNCHANGED twin

LoadUnload == hist.calls < MaxCalls /\ Unload /\ UNCHANGED twin

LoadRender ==
  /\ hist.calls < MaxCalls
  /\ \E id \in {host.onReady, host.onReady + 1} : HostRender(id)
  /\ UNCHANGED twin

LoadNext == LoadFrame \/ LoadCommit \/ LoadReplace \/ LoadUnload \/ LoadRender

SpecLoad == LoadInit /\ [][LoadNext]_vars

\* C15: the ready callback has been invoked exactly once per model load, and
\* its last invocation carries the clip names, the morph names of the
\* selected expressive mesh and the names of the controllable bones found.
C15_ReadyOncePerLoad ==
  /\ Len(host.ready) = hist.loads
  /\ host.ready[Len(host.ready)] =
       [anims |-> names, morphs |-> DOMAIN infl, bones |-> bones \cap relevantBones]

\* C16: every replacement of the model, one that follows another at once
\* included, leaves a fresh instance: blinkState is {false, 2000} with no
\* update pending, the smoothed audio value is 0, the selected mesh, its
\* morphs, the bones and the clip registry are those of the new scene, and
\* one more ready event, carrying the new names, has been delivered.
C16_FreshInstance ==
  [][hist'.last = "load" =>
       LET r == hist'.requested
       IN  /\ blinkState' = [isBlinking |-> FALSE, nextBlink |-> InitialNextBlink]
           /\ pendingBlink' = <<>>
           /\ smoothAudio' = 0
           /\ host'.mounted
           /\ host'.scene = r.meshes /\ host'.selected = SelectMesh(r.meshes)
           /\ headMesh' = Expressive(r.meshes) /\ DOMAIN infl' = MorphsOf(r.meshes)
           /\ bones' = r.found /\ DOMAIN rot' = r.found
           /\ names' = r.clips /\ DOMAIN actions' = Range(r.clips)
           /\ host'.ready = Append(host.ready, ReadyEvent(r.meshes, r.found, r.clips))]_vars

\* After frames that moved the blink and audio state, the model was replaced
\* twice in a row by different models; three ready events have been delivered.
C16_Witness ==
  /\ hist.last = "load" /\ hist.quick /\ hist.loads = 3 /\ hist.frames >= 2
  /\ Len(host.ready) = 3 /\ host.ready[3] # host.ready[2]
  /\ host.ready[3].morphs # {} /\ host.ready[3].anims # <<>>

\* ------------------------------------------------ specification: subsets
\* A skeleton with any subset of the six posed bone keys, with or without an
\* expressive mesh; the second run is the same model with all six bones.
SubsetMorphs == {"jawOpen", "smile", "blink", "browInnerUp"}
SubsetLevels == {0, Unit}

SubsetInit ==
  \E found \in SUBSET relevantBones, mesh \in BOOLEAN, raw \in SubsetLevels :
    LET meshes == IF mesh THEN <<MeshNode(TRUE, FALSE, TRUE, SubsetMorphs)>> ELSE <<>>
        s == LoadState(meshes, found, <<>>, 1900, 50, raw)
        full == LoadState(meshes, relevantBones, <<>>, 1900, 50, raw)
    IN  Holds([s EXCEPT !.twin = full.twin])

SubsetFrame ==
  /\ hist.frames < MaxTwinFrames
  /\ Len(pendingBlink) < MaxPending
  /\ Frame(frameMs, hist.lastRaw, 0)
  /\ twin' = [twin EXCEPT !.e = FrameStep(twin.e, headMesh, t + frameMs, hist.lastRaw, 0,
                                          MixerUpdate(actions, mixerTime + frameMs, frameMs),
                                          isDebuggingBones)]
  /\ UNCHANGED host

SubsetCommit == TwinCommit

\* The mount effect runs again (new callback) in both runs.
SubsetRender ==
  /\ hist.calls < MaxCalls
  /\ HostRender(host.onReady + 1)
  /\ twin' = [twin EXCEPT !.e.rot = RelaxPose(@)]

SubsetNext == SubsetFrame \/ SubsetCommit \/ SubsetRender

SpecSubset == SubsetInit /\ [][SubsetNext]_vars

\* C17: whatever subset of the bone keys the skeleton has, and with or without
\* an expressive mesh, the engine holds rotations for exactly the bones found
\* and influences for exactly the morphs of the mesh, and after every step
\* each of them equals its value in the run with the full skeleton.
C17_SubsetRunsAlike ==
  /\ DOMAIN rot = bones
  /\ \A k \in bones : rot[k] = twin.e.rot[k]
  /\ DOMAIN infl = (IF headMesh THEN SubsetMorphs ELSE {})
  /\ infl = twin.e.infl
  /\ smoothAudio = twin.e.smoothAudio
  /\ blinkState = twin.e.blinkState /\ pendingBlink = twin.e.pendingBlink

\* Frames and a second run of the mount effect have acted on a skeleton that
\* has an arm but neither spine nor head, and no expressive mesh.
C17_Witness ==
  /\ hist.last = "frame" /\ hist.frames >= 3 /\ Len(host.ready) >= 2
  /\ "leftArm" \in bones /\ "spine" \notin bones /\ "head" \notin bones
  /\ ~headMesh
  /\ rot["leftArm"] # InitialPose("leftArm")
  /\ twin.e.rot["spine"] # InitialPose("spine")

\* ---------------------------------------------- specification: selection
\* The host starts without a model (modelUrl null) and loads a scene of up to
\* three mesh nodes of every kind (skinned or not, marked or not, with or
\* without morph targets), no skeleton, no clips; frames run on the mesh
\* selected.
SelectNodes ==
  {MeshNode(sk, mk, d, IF d THEN (IF mk THEN {"jawOpen", "blink"} ELSE {"mouthOpen"}) ELSE {}) :
     sk \in BOOLEAN, mk \in BOOLEAN, d \in BOOLEAN}
SelectScenes ==
  {<<>>} \cup {<<a>> : a \in SelectNodes}
         \cup {<<a, b>> : a \in SelectNodes, b \in SelectNodes}
         \cup {<<a, b, c>> : a \in SelectNodes, b \in SelectNodes, c \in SelectNodes}

SelectInit ==
  LET s == LoadState(<<>>, {}, <<>>, 1900, 50, Unit)
  IN  Holds([s EXCEPT !.host.mounted = FALSE, !.host.ready = <<>>, !.hist.loads = 0])

SelectLoad ==
  /\ ~host.mounted
  /\ \E meshes \in SelectScenes : Replace(meshes, {}, <<>>)
  /\ UNCHANGED twin

SelectFrame ==
  /\ host.mounted
  /\ hist.frames < MaxLoadFrames
  /\ Len(pendingBlink) < MaxPending
  /\ Frame(frameMs, hist.lastRaw, 0)
  /\ UNCHANGED <<twin, host>>

SelectCommit == host.mounted /\ Commit /\ UNCHANGED <<twin, host>>

SelectNext == SelectLoad \/ SelectFrame \/ SelectCommit

SpecSelect == SelectInit /\ [][SelectNext]_vars

\* C18: over the skinned meshes of the scene: no mesh is selected only if
\* none has morph targets; a mesh with the head/avatar marker is selected if
\* there is one, otherwise the first mesh with a morph dictionary; and when
\* some mesh has morph targets the selected mesh has them.
C18_SelectionContract ==
  LET ms == host.scene
      sel == host.selected
      marked == {i \in 1..Len(ms) : ms[i].skinned /\ ms[i].marker}
      withDict == {i \in 1..Len(ms) : ms[i].skinned /\ ms[i].dict}
  IN  /\ sel = 0 => withDict = {}
      /\ marked # {} => sel \in marked
      /\ (marked = {} /\ withDict # {}) => (sel \in withDict /\ \A j \in withDict : sel <= j)
      /\ withDict # {} => (sel # 0 /\ ms[sel].dict)

\* ---------------------------------------------------------- live voice
\* GeminiService.handleLiveMessage: a message with inline audio data hands the
\* base64 string to onAudioChunk, which is setAudioToPlay(chunk) in the host;
\* a message without data (empty string) is dropped.
handleLiveMessage(chunk) ==
  /\ host' = [host EXCEPT !.pendingAudio = IF chunk # "" THEN Append(@, chunk) ELSE @]
  /\ hist' = [hist EXCEPT !.last = "chunk",
                          !.chunks = IF chunk # "" THEN Append(@, chunk) ELSE @]
  /\ UNCHANGED <<t, mixerTime, smoothAudio, infl, blinkState, pendingBlink, rot,
                 isDebuggingBones, actions, headMesh, bones, names, frameMs>>

\* AudioService.playAudio(base64Audio) up to its first suspension: the
\* synchronous part of initializeAudioContext creates the context if there is
\* none (it starts suspended or running, as the autoplay policy decides) and
\* calls resume() if it is suspended; the call then waits.
playAudio(sv, chunk, policy) ==
  LET state == IF sv.context = "none" THEN policy ELSE sv.context
  IN  [sv EXCEPT !.context = state,
                 !.calls = Append(@, [chunk |-> chunk,
                                      pc |-> IF state = "suspended" THEN "resuming"
                                             ELSE "inited"])]

\* React renders the host: audioToPlay becomes the value of the last pending
\* setAudioToPlay; the effect of DigitalHuman with dependency [audioToPlay]
\* runs only if the value changed, and calls playAudio if it is not empty.
RenderAudio ==
  /\ host.pendingAudio # <<>>
  /\ LET next == host.pendingAudio[Len(host.pendingAudio)]
         plays == next # host.audioToPlay /\ next # ""
     IN  \E policy \in {"suspended", "running"} :
           /\ (plays /\ host.service.context = "none") \/ policy = "running"
           /\ host' = [host EXCEPT !.audioToPlay = next,
                                   !.pendingAudio = <<>>,
                                   !.played = IF plays THEN Append(@, next) ELSE @,
                                   !.service = IF plays THEN playAudio(@, next, policy) ELSE @]
  /\ hist' = [hist EXCEPT !.last = "renderAudio"]
  /\ UNCHANGED <<t, mixerTime, smoothAudio, infl, blinkState, pendingBlink, rot,
                 isDebuggingBones, actions, headMesh, bones, names, frameMs>>

\* -------------------------------------------------- specification: voice
\* The live voice service delivers chunks (two contents, or a message without
\* audio) at any time relative to the renders of the host.
VoiceChunks == {"", "AAAA", "AQID"}

VoiceInit == Load(FALSE, {}, {}, <<>>, 0, 50, 0)

VoiceChunk ==
  /\ Len(hist.chunks) < MaxChunks
  /\ \E c \in VoiceChunks : handleLiveMessage(c)
  /\ UNCHANGED twin

VoiceRender == RenderAudio /\ UNCHANGED twin

VoiceNext == VoiceChunk \/ VoiceRender

SpecVoice == VoiceInit /\ [][VoiceNext]_vars

RECURSIVE IsPrefix(_, _)
IsPrefix(p, q) ==
  IF p = <<>> THEN TRUE
  ELSE IF q = <<>> THEN FALSE
  ELSE Head(p) = Head(q) /\ IsPrefix(Tail(p), Tail(q))

\* C19: the chunks passed to playAudio are, in order, the chunks handed to
\* onAudioChunk: always a prefix of them, and all of them once the host has
\* rendered after the last chunk.
C19_EveryChunkPlayed ==
  /\ IsPrefix(host.played, hist.chunks)
  /\ host.pendingAudio = <<>> => host.played = hist.chunks

\* ------------------------------------------------- claims: order of steps
\* One morph step of the frame, by name.
MorphStepOf(step, m, bs, now, intensity) ==
  CASE step = "lipSync" -> LipSync(m, intensity)
    [] step = "smile"   -> Smile(m)
    [] step = "blink"   -> BlinkWrite(m, bs, now)
    [] step = "flutter" -> Flutter(m, now, isTalking(intensity))

\* The morph influences after the steps of order, run one after the other.
RECURSIVE RunSteps(_, _, _, _, _)
RunSteps(order, m, bs, now, intensity) ==
  IF order = <<>> THEN m
  ELSE RunSteps(Tail(order), MorphStepOf(Head(order), m, bs, now, intensity), bs, now, intensity)

\* The steps executed are those of order, in the order they have there.
InOrder(steps, order) == steps = SelectSeq(order, LAMBDA x : x \in Range(steps))

Undefined == -1
LookUp(d, name) == IF name \in DOMAIN d THEN d[name] ELSE Undefined

\* Mutant: the index is tested for truthiness, so index 0 counts as missing.
targetIndex_Truthy(d) ==
  LET found == {i \in 1..Len(mouthTargets) :
                  LookUp(d, mouthTargets[i]) # Undefined /\ LookUp(d, mouthTargets[i]) # 0}
  IN  IF found = {} THEN Undefined
      ELSE LookUp(d, mouthTargets[CHOOSE i \in found : \A j \in found : i <= j])

\* mouthTargets.map(name => dict[name]).find(i => i !== undefined)
targetIndex(d) ==
  LET found == {i \in 1..Len(mouthTargets) : LookUp(d, mouthTargets[i]) # Undefined}
  IN  IF found = {} THEN Undefined
      ELSE LookUp(d, mouthTargets[CHOOSE i \in found : \A j \in found : i <= j])

\* if (targetIndex !== undefined) influences[targetIndex] = lerp(.., intensity * 1.2, 0.4)
LipSyncAt(d, a, intensity) ==
  IF targetIndex(d) = Undefined THEN a
  ELSE [a EXCEPT ![targetIndex(d)] = Lerp(@, RoundDiv(intensity * LipScale, 10), LipRate)]

\* The indices the dictionary gives the names of a list.
IndicesOf(d, list) == {LookUp(d, n) : n \in Range(list)} \ {Undefined}

SmileAt(d, a) ==
  [i \in DOMAIN a |-> IF i \in IndicesOf(d, smileTargets)
                      THEN Lerp(a[i], SmileTarget, MorphRate) ELSE a[i]]

BlinkAt(d, a, bs, now) ==
  IF ~bs.isBlinking THEN a
  ELSE [i \in DOMAIN a |-> IF i \in IndicesOf(d, blinkTargets)
                           THEN BlinkValue(now, bs.nextBlink) ELSE a[i]]

FlutterAt(d, a, now, talking) ==
  [i \in DOMAIN a |->
     IF \E k \in 1..Len(expressionTargets) : LookUp(d, expressionTargets[k].name) = i
     THEN LET k == CHOOSE k \in 1..Len(expressionTargets) :
                     LookUp(d, expressionTargets[k].name) = i
          IN  Lerp(a[i], IF talking THEN FlutterTarget(now, expressionTargets[k].freq) ELSE 0,
                   MorphRate)
     ELSE a[i]]

\* All morph writes of one frame on the array, in the order of the source.
MorphStepAt(d, a, bs, now, intensity) ==
  FlutterAt(d, BlinkAt(d, SmileAt(d, LipSyncAt(d, a, intensity)), bs, now),
            now, isTalking(intensity))

\* The dictionary of a mesh whose morphs are listed in order: name -> index.
DictOf(order) ==
  [n \in Range(order) |-> (CHOOSE i \in 1..Len(order) : order[i] = n) - 1]

\* -------------------------------------------- specification: lip sync
\* Meshes with up to three morphs in any order, among them mouth-open names
\* at index 0 and later; the array is run beside the influences by name.
LipNames == {"viseme_aa", "jawOpen", "mouthOpen", "mouth_open", "mouthSmile", "browInnerUp"}
LipOrders ==
  {<<>>} \cup {<<a>> : a \in LipNames}
    \cup {<<a, b>> : a \in LipNames, b \in LipNames \ {"viseme_aa"}}
    \cup {<<a, b, c>> : a \in {"viseme_aa", "jawOpen", "mouthSmile"},
                        b \in {"mouthOpen", "jawOpen"}, c \in {"mouth_open", "viseme_aa"}}
LipLevels == {0, Unit}

LipInit ==
  \E order \in LipOrders, raw \in LipLevels :
    /\ Cardinality(Range(order)) = Len(order)
    /\ Holds([LoadState(<<MeshNode(TRUE, FALSE, TRUE, Range(order))>>, {}, <<>>, 1950, 50, raw)
                EXCEPT !.twin = [dictionary |-> DictOf(order),
                                 influences |-> [i \in 0..(Len(order) - 1) |-> 0]]])

LipFrame ==
  /\ hist.frames < MaxLipFrames
  /\ \E raw \in LipLevels :
       /\ Frame(frameMs, raw, 0)
       /\ twin' = [twin EXCEPT !.influences =
                     MorphStepAt(twin.dictionary, @, blinkState, t + frameMs,
                                 SmoothStep(smoothAudio, raw))]
  /\ UNCHANGED host

LipCommit == Commit /\ UNCHANGED <<twin, host>>

LipNext == LipFrame \/ LipCommit

SpecLip == LipInit /\ [][LipNext]_vars

\* C21: in each frame lip sync writes exactly one morph, the first name of
\* (viseme_aa, jawOpen, mouthOpen, mouth_open) that the dictionary holds, at
\* whatever index (0 included): its new value is lerp(current, smoothed * 1.2,
\* 0.4) and every other mouth-open morph keeps its value; with none of the names
\* in the dictionary no mouth-open morph is written.  The influences by name
\* are the array read through the dictionary.
C21_LipSyncFirstExisting ==
  [][hist'.last = "frame" =>
       LET d == twin.dictionary
           first == FirstIn(mouthTargets, DOMAIN d)
       IN  /\ \A n \in Range(mouthTargets) \cap DOMAIN d :
                twin'.influences[d[n]] =
                  IF n = first
                  THEN Lerp(twin.influences[d[n]], RoundDiv(smoothAudio' * LipScale, 10), LipRate)
                  ELSE twin.influences[d[n]]
           /\ infl' = [n \in DOMAIN d |-> twin'.influences[d[n]]]]_vars

\* A frame has opened the jaw of a mesh whose first morph (index 0) is
\* jawOpen and which also has mouthOpen but not viseme_aa.
C21_Witness ==
  /\ hist.last = "frame"
  /\ "jawOpen" \in DOMAIN twin.dictionary /\ twin.dictionary["jawOpen"] = 0
  /\ "mouthOpen" \in DOMAIN twin.dictionary /\ "viseme_aa" \notin DOMAIN twin.dictionary
  /\ twin.influences[0] > 0
  /\ twin.influences[twin.dictionary["mouthOpen"]] = 0


\* ------------------------------------------------------- bone discovery
\* A node of the scene that is a bone (or, with isBone false, a named node
\* that is not); it is no skinned mesh.
BoneNode(name, isBone) ==
  [skinned |-> FALSE, marker |-> FALSE, dict |-> FALSE, morphs |-> {},
   isBone |-> isBone, name |-> name]
IsBone(node) == "isBone" \in DOMAIN node /\ node.isBone

\* Mutant: the arm predicates are tested before shoulder, forearm and hand.
KeysFor_ArmFirst(name, spineSet) ==
  LET is(n) == includes(name, n)
  IN  IF is("head") THEN {"head"}
      ELSE IF is("neck") THEN {"neck"}
      ELSE IF is("spine2") \/ (is("spine") /\ ~spineSet) THEN {"spine"}
      ELSE IF is("hips") THEN {"hips"}
      ELSE IF is("left") /\ is("arm") THEN {"leftArm"}
      ELSE IF is("left") /\ is("shoulder") THEN {"leftShoulder"}
      ELSE IF is("left") /\ is("forearm") THEN {"leftForeArm"}
      ELSE IF is("left") /\ is("hand") THEN {"leftHand"}
      ELSE IF is("right") /\ is("arm") THEN {"rightArm"}
      ELSE IF is("right") /\ is("shoulder") THEN {"rightShoulder"}
      ELSE IF is("right") /\ is("forearm") THEN {"rightForeArm"}
      ELSE IF is("right") /\ is("hand") THEN {"rightHand"}
      ELSE {}

\* The keys the if / else-if chain assigns a bone with this lower-cased name
\* while b.spine is set or not: one key or none.
KeysFor(name, spineSet) ==
  LET is(n) == includes(name, n)
  IN  IF is("head") THEN {"head"}
      ELSE IF is("neck") THEN {"neck"}
      ELSE IF is("spine2") \/ (is("spine") /\ ~spineSet) THEN {"spine"}
      ELSE IF is("hips") THEN {"hips"}
      ELSE IF is("left") /\ is("shoulder") THEN {"leftShoulder"}
      ELSE IF is("left") /\ is("forearm") THEN {"leftForeArm"}
      ELSE IF is("left") /\ is("hand") THEN {"leftHand"}
      ELSE IF is("left") /\ is("arm") THEN {"leftArm"}
      ELSE IF is("right") /\ is("shoulder") THEN {"rightShoulder"}
      ELSE IF is("right") /\ is("forearm") THEN {"rightForeArm"}
      ELSE IF is("right") /\ is("hand") THEN {"rightHand"}
      ELSE IF is("right") /\ is("arm") THEN {"rightArm"}
      ELSE {}

\* Mutant: a key that holds a bone keeps it.
Assign_KeepFirst(b, keys, i) ==
  [k \in DOMAIN b |-> IF k \in keys /\ b[k] = 0 THEN i ELSE b[k]]

\* b.key = node, for the keys assigned to node i.
Assign(b, keys, i) == [k \in DOMAIN b |-> IF k \in keys THEN i ELSE b[k]]

\* The callback of scene.traverse on node i of the scene, for the record b
\* (key -> index of the node held, 0 for null).
VisitBone(b, nodes, i) ==
  IF ~IsBone(nodes[i]) THEN b
  ELSE Assign(b, KeysFor(toLowerCase(nodes[i].name), b["spine"] # 0), i)

\* The record b after the first i nodes of the traversal.
RECURSIVE BonesAfter(_, _)
BonesAfter(nodes, i) ==
  IF i = 0 THEN [k \in BoneKeys |-> 0] ELSE VisitBone(BonesAfter(nodes, i - 1), nodes, i)

\* bones (useMemo): the record after the whole traversal.
Discover(nodes) == BonesAfter(nodes, Len(nodes))
\* The keys that hold a bone.
FoundKeys(nodes) == LET b == Discover(nodes) IN {k \in BoneKeys : b[k] # 0}
\* The keys node i was assigned to when the traversal visited it.
KeysOf(nodes, i) ==
  IF ~IsBone(nodes[i]) THEN {}
  ELSE LET before == BonesAfter(nodes, i - 1)
           after == VisitBone(before, nodes, i)
       IN  {k \in BoneKeys : after[k] = i}

\* ------------------------------------------ specification: bone discovery
\* Skeletons of up to three nodes with the bone names of common humanoid
\* rigs, in every order and with repetitions; the model is loaded and frames
\* run on the bones found.
RigNames == {"Hips", "Spine", "Spine1", "Spine2", "Neck", "Head", "HeadTop_End",
             "LeftShoulder", "LeftArm", "LeftForeArm", "LeftHand", "LeftHandThumb1",
             "RightArm", "RightForeArm", "LeftUpLeg"}
RigNodes == {BoneNode(n, TRUE) : n \in RigNames} \cup {BoneNode("LeftArm", FALSE)}
Skeletons ==
  {<<a>> : a \in RigNodes} \cup {<<a, b>> : a \in RigNodes, b \in RigNodes}
    \cup {<<a, b, c>> : a \in RigNodes, b \in RigNodes, c \in RigNodes}

BoneInit ==
  LET s == LoadState(<<>>, {}, <<>>, 0, 50, 0)
  IN  Holds([s EXCEPT !.host.mounted = FALSE, !.host.ready = <<>>, !.hist.loads = 0])

BoneLoad ==
  /\ ~host.mounted
  /\ \E nodes \in Skeletons : Replace(nodes, FoundKeys(nodes), <<>>)
  /\ UNCHANGED twin

BoneFrame ==
  /\ host.mounted
  /\ hist.frames < MaxBoneFrames
  /\ Frame(frameMs, hist.lastRaw, 0)
  /\ UNCHANGED <<twin, host>>

BoneNext == BoneLoad \/ BoneFrame

SpecBones == BoneInit /\ [][BoneNext]_vars


\* The predicates of bone discovery in their fixed order: the key and the
\* substrings a lower-cased name must all include.
BonePredicates ==
  <<[key |-> "head", all |-> {"head"}], [key |-> "neck", all |-> {"neck"}],
    [key |-> "spine", all |-> {"spine"}], [key |-> "hips", all |-> {"hips"}],
    [key |-> "leftShoulder", all |-> {"left", "shoulder"}],
    [key |-> "leftForeArm", all |-> {"left", "forearm"}],
    [key |-> "leftHand", all |-> {"left", "hand"}],
    [key |-> "leftArm", all |-> {"left", "arm"}],
    [key |-> "rightShoulder", all |-> {"right", "shoulder"}],
    [key |-> "rightForeArm", all |-> {"right", "forearm"}],
    [key |-> "rightHand", all |-> {"right", "hand"}],
    [key |-> "rightArm", all |-> {"right", "arm"}]>>

\* The predicates that hold for a lower-cased name; the spine predicate holds
\* for 'spine2' at any time and for 'spine' while no spine bone is held.
Matching(name, spineSet) ==
  {i \in 1..Len(BonePredicates) :
     /\ \A sub \in BonePredicates[i].all : includes(name, sub)
     /\ BonePredicates[i].key = "spine" /\ spineSet => includes(name, "spine2")}

\* The key of the first predicate that holds, as a set: empty when none does.
FirstMatch(name, spineSet) ==
  LET hit == Matching(name, spineSet)
  IN  IF hit = {} THEN {}
      ELSE {BonePredicates[CHOOSE i \in hit : \A j \in hit : i <= j].key}

\* C22: bone discovery assigns each bone node to at most one key, the key of
\* the first predicate its lower-cased name matches in the order head, neck,
\* spine, hips, left shoulder, forearm, hand, arm, right shoulder, forearm,
\* hand, arm; a bone whose name contains 'left' ('right') and 'shoulder',
\* 'forearm' or 'hand' is never assigned to leftArm (rightArm), a bone matching
\* no predicate and a node that is no bone populate no key, and the bones found
\* are the keys assigned.
C22_FirstMatchWins ==
  host.mounted =>
    LET nodes == host.scene
        found == Discover(nodes)
    IN  /\ \A i \in 1..Len(nodes) :
             LET before == BonesAfter(nodes, i - 1)
                 after == VisitBone(before, nodes, i)
                 keys == {k \in BoneKeys : after[k] # before[k]}
                 name == toLowerCase(nodes[i].name)
             IN  /\ Cardinality(keys) <= 1
                 /\ \A k \in BoneKeys : after[k] \in {before[k], i}
                 /\ IsBone(nodes[i]) => keys = FirstMatch(name, before["spine"] # 0)
                 /\ ~IsBone(nodes[i]) => keys = {}
                 /\ \A side \in {"left", "right"} :
                      /\ includes(name, side)
                      /\ \E part \in {"shoulder", "forearm", "hand"} : includes(name, part)
                      => side \o "Arm" \notin keys
                 /\ (\A p \in 1..Len(BonePredicates) : \E sub \in BonePredicates[p].all :
                        ~includes(name, sub)) => keys = {}
        /\ bones = {k \in BoneKeys : found[k] # 0}
        /\ DOMAIN rot = bones

\* The skeleton loaded holds a shoulder, a forearm and a bone matching no
\* predicate, and a frame has run on the bones found.
C22_Witness ==
  /\ host.mounted /\ hist.last = "frame"
  /\ Len(host.scene) = 3
  /\ host.scene[1].name = "LeftShoulder" /\ host.scene[2].name = "LeftForeArm"
  /\ host.scene[3].name = "LeftUpLeg" /\ IsBone(host.scene[1])
  /\ bones = {"leftShoulder", "leftForeArm"}
  /\ rot["leftForeArm"]["z"] # 0

\* The bones of a skeleton that classify to key: those the chain assigns to
\* it when the record is empty.
Candidates(nodes, key) ==
  {i \in 1..Len(nodes) : IsBone(nodes[i]) /\ KeysFor(toLowerCase(nodes[i].name), FALSE) = {key}}
Last(set) == CHOOSE i \in set : \A j \in set : j <= i
First(set) == CHOOSE i \in set : \A j \in set : i <= j

\* C23 as stated: when several bones of the skeleton classify to the same key,
\* the key holds the last of them in traversal order, for every key.
C23_LastWinsEveryKey ==
  host.mounted =>
    LET found == Discover(host.scene)
    IN  \A k \in BoneKeys :
          LET c == Candidates(host.scene, k)
          IN  Cardinality(c) >= 2 => found[k] = Last(c)

\* C23: when several bones of the skeleton classify to the same key, every key
\* but spine holds the last of them in traversal order; spine holds the last
\* bone whose name includes 'spine2' if there is one, and otherwise the first
\* bone classified to spine.
C23_LastWinsButSpine ==
  host.mounted =>
    LET found == Discover(host.scene)
    IN  \A k \in BoneKeys :
          LET c == Candidates(host.scene, k)
              c2 == {i \in c : includes(toLowerCase(host.scene[i].name), "spine2")}
          IN  /\ c = {} => found[k] = 0 /\ k \notin bones
              /\ c # {} =>
                   /\ k \in bones
                   /\ found[k] =
                        IF k # "spine" THEN Last(c) ELSE IF c2 # {} THEN Last(c2) ELSE First(c)

\* A skeleton with two hand bones, the key holding the later one, has run a
\* frame.
C23_Witness ==
  /\ host.mounted /\ hist.last = "frame"
  /\ Candidates(host.scene, "leftHand") = {1, 3}
  /\ Discover(host.scene)["leftHand"] = 3
  /\ Candidates(host.scene, "spine") = {2}


\* ---------------------------------------- specification: idle auto-start
\* Models with up to three clips named in any order and case, loaded into
\* an empty canvas with the override flag clear or set; frames follow.
IdleClipNames == {"Walk", "IDLE", "Standing_Loop", "AwaitTurn", "Wave"}
IdleClipLists ==
  {<<>>} \cup {<<a>> : a \in IdleClipNames}
    \cup {<<a, b>> : a \in IdleClipNames, b \in IdleClipNames}
    \cup {<<a, b, c>> : a \in IdleClipNames, b \in IdleClipNames, c \in IdleClipNames}
IdleBones == {"spine", "leftArm"}
IdlePeriods == {50, 250}

IdleInit ==
  \E period \in IdlePeriods :
    LET s == LoadState(<<>>, {}, <<>>, 0, period, 0)
    IN  Holds([s EXCEPT !.host.mounted = FALSE, !.host.ready = <<>>, !.hist.loads = 0])

IdleLoad ==
  /\ ~host.mounted
  /\ \E clipNames \in IdleClipLists :
       /\ Cardinality(Range(clipNames)) = Len(clipNames)
       /\ Replace(<<>>, IdleBones, clipNames)
  /\ UNCHANGED twin

IdleFrame ==
  /\ host.mounted
  /\ hist.frames < MaxIdleFrames
  /\ Frame(frameMs, hist.lastRaw, 0)
  /\ UNCHANGED <<twin, host>>

IdleStartDebug == StartDebug /\ UNCHANGED <<twin, host>>

IdleNext == IdleLoad \/ IdleFrame \/ IdleStartDebug

SpecIdle == IdleInit /\ [][IdleNext]_vars

\* The clip names of the specification that match idle|stand|wait in some case.
IdleMatching == {"IDLE", "Standing_Loop", "AwaitTurn"}

\* C24: at model load a clip is started if and only if some clip name matches
\* idle|stand|wait in any case, and the clip started is the first such name,
\* fading in from the load; when no name matches, no clip is started, every
\* clip's weight is 0 in every frame and the pose controller writes the bones
\* from the first frame on unless the override flag is set.
C24_IdleAutoStart ==
  [][/\ hist'.loads = hist.loads + 1 =>
          LET match == {i \in 1..Len(names') : names'[i] \in IdleMatching}
          IN  \A i \in 1..Len(names') :
                LET a == actions'[names'[i]]
                IN  /\ a.active = (match # {} /\ i = First(match))
                    /\ a.active => /\ a.enabled /\ a.fading /\ a.fadeTo = Unit
                                   /\ a.fadeAt = mixerTime' /\ a.time = 0
     /\ hist'.last = "frame" /\ Range(names) \cap IdleMatching = {} =>
          /\ \A n \in Range(names) : ~actions'[n].active /\ ClipWeight(actions'[n]) = 0
          /\ hist'.poseOpen = ~isDebuggingBones
          /\ rot' = IF isDebuggingBones THEN rot
                    ELSE PoseStep(rot, t', isTalking(smoothAudio'))]_vars

\* A model whose second and third clip names match has been loaded and has
\* run two frames: the second clip is playing, the third is not.
C24_Witness ==
  /\ hist.last = "frame" /\ hist.frames = 2
  /\ names = <<"Walk", "Standing_Loop", "IDLE">>
  /\ actions["Standing_Loop"].active /\ ClipWeight(actions["Standing_Loop"]) > 0
  /\ ~actions["IDLE"].active /\ ~actions["Walk"].active


\* ------------------------------------------------- specification: face
\* A head mesh with smile, flutter, mouth and eyelid morphs whose influences
\* start at the default weights of the model; the audio level changes freely
\* between frames, blinks start and end, the override flag is set and cleared.
\* The twin keeps the state at load.
FaceMorphs == {"mouthSmile", "smile", "browInnerUp", "cheekSquintLeft", "jawOpen", "blink"}
FaceSmiles == {0, 300000, SmileTarget, Unit}
FaceFlutters == {0, 150000}
FaceLevels == {0, 300000}

FaceInit ==
  \E smile \in FaceSmiles, flutter \in FaceFlutters :
    LET s == LoadState(<<MeshNode(TRUE, FALSE, TRUE, FaceMorphs)>>, {"spine"}, <<>>,
                       1850, 50, 0)
        weights == [n \in FaceMorphs |->
                      CASE n = "mouthSmile" -> smile
                        [] n = "smile" -> Unit - smile
                        [] n \in {"browInnerUp", "cheekSquintLeft"} -> flutter
                        [] OTHER -> 0]
    IN  Holds([s EXCEPT !.e.infl = weights, !.twin.e.infl = weights])

FaceFrame ==
  /\ hist.frames < MaxFaceFrames
  /\ pendingBlink = <<>>
  /\ \E raw \in FaceLevels : Frame(frameMs, raw, 0)
  /\ UNCHANGED <<twin, host>>

FaceCommit == Commit /\ UNCHANGED <<twin, host>>
FaceStartDebug == hist.calls < MaxCalls /\ StartDebug /\ UNCHANGED <<twin, host>>
FaceStopDebug == hist.calls < MaxCalls /\ StopDebug /\ UNCHANGED <<twin, host>>

FaceNext == FaceFrame \/ FaceCommit \/ FaceStartDebug \/ FaceStopDebug

SpecFace == FaceInit /\ [][FaceNext]_vars

\* The value of a smile morph n frames after it was v.
RECURSIVE SmileAfter(_, _)
SmileAfter(v, n) ==
  IF n = 0 THEN v ELSE RoundDiv(9 * SmileAfter(v, n - 1) + SmileTarget, 10)

\* C25: every smile-family morph of the mesh moves on each frame by 0.1 of its
\* remaining distance toward 0.4, whatever the audio level, the talk state, the
\* blink state and the override flag: after n frames its value is a function
\* of its initial value and n alone, it never moves away from 0.4 and never
\* crosses it, and nothing but a frame changes it.
C25_SmileConverges ==
  [][\A n \in Range(smileTargets) \cap DOMAIN infl :
       /\ infl'[n] = SmileAfter(twin.e.infl[n], hist'.frames)
       /\ hist'.last = "frame" =>
            /\ 10 * (infl'[n] - infl[n]) - (SmileTarget - infl[n]) \in -5..5
            /\ infl[n] <= SmileTarget => infl[n] <= infl'[n] /\ infl'[n] <= SmileTarget
            /\ infl[n] >= SmileTarget => infl[n] >= infl'[n] /\ infl'[n] >= SmileTarget
       /\ hist'.last # "frame" => infl'[n] = infl[n]]_vars

\* Five frames have run with the flag set, a blink under way and the avatar
\* talking; one smile morph has come down from 1 and the other up from 0.
C25_Witness ==
  /\ hist.last = "frame" /\ hist.frames = MaxFaceFrames
  /\ isDebuggingBones /\ blinkState.isBlinking /\ isTalking(smoothAudio)
  /\ twin.e.infl["mouthSmile"] = Unit /\ infl["mouthSmile"] \in (SmileTarget + 1)..(Unit - 1)
  /\ twin.e.infl["smile"] = 0 /\ infl["smile"] \in 1..(SmileTarget - 1)

\* C26: in every frame the target of each brow / cheek flutter morph is the
\* oscillating value, which lies in [0, 0.2], if and only if the smoothed
\* audio value is strictly above 0.05, and 0 otherwise; the morph becomes
\* lerp(current, target, 0.1), so in a frame that is not talking its value does
\* not increase and stays at or above 0.
C26_FlutterOnlyTalking ==
  [][hist'.last = "frame" =>
       \A k \in 1..Len(expressionTargets) :
         LET n == expressionTargets[k].name
             wave == SinMilli(Angle(t', expressionTargets[k].freq)) * (Unit \div 10000)
                       + Unit \div 10
             target == IF smoothAudio' > Unit \div 20 THEN wave ELSE 0
         IN  n \in DOMAIN infl =>
               /\ wave \in 0..(Unit \div 5)
               /\ infl'[n] = RoundDiv(9 * infl[n] + target, 10)
               /\ smoothAudio' <= Unit \div 20 => infl'[n] <= infl[n] /\ infl'[n] >= 0]_vars

\* A frame that is not talking has lowered a flutter morph that talking
\* frames had raised from 0.
C26_Witness ==
  /\ hist.last = "frame" /\ ~isTalking(smoothAudio) /\ hist.switches >= 2
  /\ twin.e.infl["browInnerUp"] = 0 /\ infl["browInnerUp"] > 0
  /\ infl["cheekSquintLeft"] > 0


\* ------------------------------------------- claims: blink state commits
\* C27: whatever the interleaving of frames and commits of the blink state
\* (several frames may run before a pending update is committed), the blink
\* state a frame reads never has isBlinking true with nextBlink later than the
\* clock, so every eyelid morph holds a value in [0,1]; and at most one blink
\* is in flight: a start is pending only while no blink is under way, an end
\* only while one is, and committing the pending updates ends in the state
\* their kind announces.
C27_BlinkStateConsistent ==
  /\ blinkState.isBlinking => blinkState.nextBlink <= t
  /\ \A n \in EyelidMorphs : infl[n] \in 0..Unit
  /\ \A i \in 1..Len(pendingBlink) :
       /\ pendingBlink[i].kind = "start" => ~blinkState.isBlinking
       /\ pendingBlink[i].kind = "set" =>
            /\ blinkState.isBlinking
            /\ pendingBlink[i].nextBlink > blinkState.nextBlink
  /\ pendingBlink # <<>> =>
       LET next == ApplyBlink(blinkState, pendingBlink)
       IN  /\ next.isBlinking = ~blinkState.isBlinking
           /\ next.isBlinking => next.nextBlink = blinkState.nextBlink /\ next.nextBlink < t

\* Two frames have run during a blink without a commit in between: both saw
\* the blink complete and both requested its end.
C27_Witness ==
  /\ hist.last = "frame" /\ blinkState.isBlinking
  /\ Len(pendingBlink) = 2
  /\ pendingBlink[1].kind = "set" /\ pendingBlink[2].kind = "set"
  /\ pendingBlink[2].nextBlink > pendingBlink[1].nextBlink


\* ------------------------------------------------ specification: reload
\* A model with eyelid morphs is mounted when the canvas clock shows 0, 1 or
\* 5 seconds, and may be replaced by another such model while the clock runs
\* on; frames of 50 or 1000 ms and commits of the blink state follow.
ReloadClocks == {0, 1000, 5000}
ReloadDeltas == {50, 1000}
ReloadScene == <<MeshNode(TRUE, TRUE, TRUE, {"eyeBlinkLeft", "eyeBlinkRight"})>>

ReloadInit ==
  \E start \in ReloadClocks : Holds(LoadState(ReloadScene, {}, <<>>, start, 50, 0))

ReloadFrame ==
  /\ hist.frames < MaxReloadFrames
  /\ pendingBlink = <<>>
  /\ \E dt \in ReloadDeltas, rnd \in {0, 3999} : Frame(dt, 0, rnd)
  /\ UNCHANGED <<twin, host>>

ReloadCommit == Commit /\ UNCHANGED <<twin, host>>

ReloadReplace ==
  /\ hist.calls < MaxCalls
  /\ hist.last # "load"
  /\ Replace(ReloadScene, {}, <<>>)
  /\ UNCHANGED twin

ReloadNext == ReloadFrame \/ ReloadCommit \/ ReloadReplace

SpecReload == ReloadInit /\ [][ReloadNext]_vars

\* C28: after a model is loaded or replaced at render-clock time T, the first
\* blink of the new model starts no earlier than 2000 ms after the load, and
\* every blink of the model, the first included, has put a value above 0 on
\* the eyelids by the time it ends.
C28_FirstBlinkTwoSecondsAfterLoad ==
  [][/\ (~blinkState.isBlinking /\ blinkState'.isBlinking /\ hist.blinks = 0)
          => t' >= hist.loadAt + InitialNextBlink
     /\ (blinkState.isBlinking /\ ~blinkState'.isBlinking) => hist.peak > 0]_vars


\* ------------------------------------------------------ audio playback
\* The sample frames of the buffer decoded from a base64 chunk of 16-bit mono
\* PCM: three bytes for four characters, two bytes for a sample.
Samples(chunk) == ((Len(chunk) * 3) \div 4) \div 2
\* The audio clock advances by this much at a time while the context runs.
TickFrames == 4

\* Position of call i of playAudio becomes pc.
AtCall(i, pc) == i \in 1..Len(host.service.calls) /\ host.service.calls[i].pc = pc
ServiceStep(sv, what) ==
  /\ host' = [host EXCEPT !.service = sv]
  /\ hist' = [hist EXCEPT !.last = what]
  /\ UNCHANGED <<t, mixerTime, smoothAudio, infl, blinkState, pendingBlink, rot,
                 isDebuggingBones, actions, headMesh, bones, names, frameMs>>

\* The promise of outputAudioContext.resume() resolves: the context runs and
\* the call returns from initializeAudioContext.
PlayResumed ==
  \E i \in 1..MaxPlays :
  /\ AtCall(i, "resuming")
  /\ UNCHANGED twin
  /\ ServiceStep([host.service EXCEPT !.context = "running", !.calls[i].pc = "inited"],
                 "resumed")

\* playAudio continues after await initializeAudioContext(): nextStartTime is
\* raised to currentTime if it is behind, and decodeAudioData is awaited.
PlayClamp ==
  \E i \in 1..MaxPlays :
  /\ AtCall(i, "inited")
  /\ UNCHANGED twin
  /\ ServiceStep([host.service EXCEPT
                    !.nextStartTime = IF host.service.currentTime > @
                                      THEN host.service.currentTime ELSE @,
                    !.calls[i].pc = "decoding"],
                 "clamp")

\* The decoding ends.  If it produced a buffer: source.start(nextStartTime);
\* nextStartTime += duration, and the source records its start, its duration
\* and the audio clock at the call.  If it threw, the catch block only logs.
PlaySchedule ==
  \E i \in 1..MaxPlays :
  /\ AtCall(i, "decoding")
  /\ UNCHANGED twin
  /\ LET sv == host.service
         dur == Samples(sv.calls[i].chunk)
     IN  \E decoded \in BOOLEAN :
           IF decoded
           THEN ServiceStep([sv EXCEPT
                               !.sources = Append(@, [start |-> sv.nextStartTime,
                                                      dur |-> dur, at |-> sv.currentTime]),
                               !.nextStartTime = @ + dur,
                               !.calls[i].pc = "done"],
                            "schedule")
           ELSE ServiceStep([sv EXCEPT !.calls[i].pc = "done"], "decode error")

\* The audio clock of a running context advances.
PlayTick ==
  /\ host.service.context = "running"
  /\ UNCHANGED twin
  /\ host.service.currentTime < MaxClock
  /\ ServiceStep([host.service EXCEPT !.currentTime = @ + TickFrames], "tick")

\* ------------------------------------------------ specification: playback
\* Two chunks of three and six sample frames arrive at any time; the host
\* renders, the calls of playAudio proceed in any interleaving and the audio
\* clock advances in between.
PlayChunks == {"AAAAAAAA", "AAAAAAAAAAAAAAAA"}

PlayInit == Load(FALSE, {}, {}, <<>>, 0, 50, 0)

PlayArrive ==
  /\ Len(hist.chunks) < MaxPlays
  /\ \E c \in PlayChunks : handleLiveMessage(c)
  /\ UNCHANGED twin

PlayRender == RenderAudio /\ UNCHANGED twin

PlayNext ==
  PlayArrive \/ PlayRender \/ PlayResumed \/ PlayClamp \/ PlaySchedule \/ PlayTick

SpecPlay == PlayInit /\ [][PlayNext]_vars

\* C29: however the calls of playAudio interleave, the playback intervals
\* [start, start + duration) of the sources started never overlap, no source
\* is started at a time earlier than the audio clock at the moment of the
\* start, and nextStartTime never decreases.
C29_PlaybackSerialised ==
  [][LET sv == host'.service
     IN  /\ \A i \in 1..Len(sv.sources) : \A j \in 1..Len(sv.sources) :
              i # j => \/ sv.sources[i].start + sv.sources[i].dur <= sv.sources[j].start
                       \/ sv.sources[j].start + sv.sources[j].dur <= sv.sources[i].start
         /\ \A i \in 1..Len(sv.sources) : sv.sources[i].start >= sv.sources[i].at
         /\ sv.nextStartTime >= host.service.nextStartTime]_vars


\* ------------------------------------------------------- live session
ConnectionStates == {"DISCONNECTED", "CONNECTING", "CONNECTED", "ERROR"}

\* A step of the GeminiService: its new state; quiet tells whether
\* disconnect() has reported DISCONNECTED and connect() was not called since.
\* The calls of connect() are counted.
GeminiStep(g, what, quiet) ==
  /\ host' = [host EXCEPT !.gemini = g]
  /\ hist' = [hist EXCEPT !.last = what, !.quiet = quiet,
                          !.connects = IF what = "connect" THEN @ + 1 ELSE @]
  /\ UNCHANGED <<t, mixerTime, smoothAudio, infl, blinkState, pendingBlink, rot,
                 isDebuggingBones, actions, headMesh, bones, names, frameMs>>

\* GeminiService.connect() up to its suspension: CONNECTING is reported, a new
\* input audio context replaces the old one and getUserMedia is awaited.
connect ==
  GeminiStep([host.gemini EXCEPT !.state = "CONNECTING",
                                 !.inputAudioContext = "running",
                                 !.connecting = @ + 1],
             "connect", FALSE)

\* getUserMedia settles.  Granted: the stream is stored and ai.live.connect
\* opens a session bound to handleOpen, handleLiveMessage, onclose and onerror.
\* Refused: the catch block reports ERROR.
LiveMedia ==
  \E granted \in BOOLEAN :
  /\ host.gemini.connecting > 0
  /\ UNCHANGED twin
  /\ IF granted
     THEN GeminiStep([host.gemini EXCEPT
                        !.connecting = @ - 1,
                        !.audioStream = "live",
                        !.sessions = Append(@, [opened |-> FALSE, closed |-> FALSE])],
                     "session", hist.quiet)
     ELSE GeminiStep([host.gemini EXCEPT !.connecting = @ - 1, !.state = "ERROR"],
                     "refused", hist.quiet)

\* GeminiService.disconnect() up to its suspension: the processor and the
\* source node are disconnected, the tracks of the stream are stopped and the
\* input audio context is closed.  Without a context DISCONNECTED is reported
\* at once; closing a context that is already closed rejects, and nothing is
\* reported.  currentSession is neither closed nor cleared.
disconnect ==
  LET g == host.gemini
      stopped == [g EXCEPT !.capturing = FALSE,
                           !.audioStream = IF @ = "live" THEN "stopped" ELSE @]
  IN  CASE g.inputAudioContext = "none" ->
             GeminiStep([stopped EXCEPT !.state = "DISCONNECTED"], "disconnected", TRUE)
        [] g.inputAudioContext = "running" ->
             GeminiStep([stopped EXCEPT !.inputAudioContext = "closed",
                                        !.closing = @ + 1],
                        "disconnect", hist.quiet)
        [] OTHER ->
             GeminiStep(stopped, "disconnect rejected", hist.quiet)

\* inputAudioContext.close() resolves: disconnect() reports DISCONNECTED.
LiveClosed ==
  /\ host.gemini.closing > 0
  /\ UNCHANGED twin
  /\ GeminiStep([host.gemini EXCEPT !.closing = @ - 1, !.state = "DISCONNECTED"],
                "disconnected", TRUE)

\* App.handleConnectToggle: disconnect() while CONNECTED or CONNECTING,
\* connect() otherwise.
handleConnectToggle ==
  IF host.gemini.state \in {"CONNECTED", "CONNECTING"} THEN disconnect ELSE connect

\* Session i is one whose callbacks may still arrive.
Live(i) == i \in 1..Len(host.gemini.sessions) /\ ~host.gemini.sessions[i].closed

\* GeminiService.handleOpen, the onopen callback of session i: CONNECTED is
\* reported; with a context and a stream the microphone capture is wired.
handleOpen(i) ==
  /\ Live(i)
  /\ ~host.gemini.sessions[i].opened
  /\ GeminiStep([host.gemini EXCEPT
                   !.state = "CONNECTED",
                   !.sessions[i].opened = TRUE,
                   !.capturing = (host.gemini.inputAudioContext # "none"
                                  /\ host.gemini.audioStream # "none")],
                "open", hist.quiet)

\* The onmessage callback of an open session i.
onmessage(i, chunk) ==
  /\ Live(i)
  /\ host.gemini.sessions[i].opened
  /\ handleLiveMessage(chunk)

\* The onerror callback of session i reports ERROR.
onerror(i) ==
  /\ Live(i)
  /\ GeminiStep([host.gemini EXCEPT !.state = "ERROR"], "error", hist.quiet)

\* The onclose callback of session i reports DISCONNECTED; it is the last
\* callback of the session.
onclose(i) ==
  /\ Live(i)
  /\ GeminiStep([host.gemini EXCEPT !.state = "DISCONNECTED",
                                    !.sessions[i].closed = TRUE],
                "close", hist.quiet)

\* ------------------------------------------- specification: live session
\* The user toggles the connection, the microphone is granted or refused, and
\* the callbacks of every session opened so far arrive in any order.
LiveChunks == {"", "AAAA"}

LiveInit == Load(FALSE, {}, {}, <<>>, 0, 50, 0)

LiveToggle ==
  /\ host.gemini.state \in {"CONNECTED", "CONNECTING"}
       \/ hist.connects < MaxConnects
  /\ handleConnectToggle
  /\ UNCHANGED twin

LiveOpen == \E i \in 1..MaxConnects : handleOpen(i) /\ UNCHANGED twin
LiveMessage ==
  /\ Len(hist.chunks) < MaxMessages
  /\ \E i \in 1..MaxConnects : \E c \in LiveChunks : onmessage(i, c)
  /\ UNCHANGED twin
LiveError == \E i \in 1..MaxConnects : onerror(i) /\ UNCHANGED twin
LiveClose == \E i \in 1..MaxConnects : onclose(i) /\ UNCHANGED twin

LiveNext ==
  LiveToggle \/ LiveMedia \/ LiveClosed \/ LiveOpen \/ LiveMessage \/ LiveError
    \/ LiveClose

SpecLive == LiveInit /\ [][LiveNext]_vars

\* C30: once disconnect() has reported DISCONNECTED, and until connect() is
\* called again, the reported connection state stays DISCONNECTED and no
\* audio chunk is delivered to onAudioChunk, whichever callbacks of a session
\* opened by an earlier connect() arrive.
C30_QuietAfterDisconnect ==
  [][(hist.quiet /\ hist'.quiet)
       => /\ host'.gemini.state = "DISCONNECTED"
          /\ hist'.chunks = hist.chunks]_vars

=============================================================================
